---- MODULE Spec2Model ----
(***************************************************************************)
(* A model of the athenamesh ABCI application (package app): the typed     *)
(* value store, the symlink index maintainers, the account model, the      *)
(* authenticator, the access-control engine and the block lifecycle.       *)
(*                                                                         *)
(* Strings are modelled as the sequence of their "/"-separated segments,   *)
(* so "user/alice/auth" is <<"user","alice","auth">>; a transaction key is *)
(* the sequence of its ":"-separated parts.  Byte strings ([]byte) are     *)
(* named tokens ("kA" is a 32-byte public key); the empty byte string is   *)
(* "".  A Go interface{} value is a record tagged by t; a value as the     *)
(* store holds it (ToBadgerType's output) is a record tagged by tag.       *)
(***************************************************************************)
EXTENDS Integers, Sequences, FiniteSets, TLC

(***************************************************************************)
(* Bounds of the model.                                                    *)
(***************************************************************************)
MaxHeight  == 2   \* blocks the consensus driver commits
MaxCalls   == 3   \* DeliverTx, CheckTx and Query calls over a run of Spec
MaxWrites  == 3   \* setKey, engine and resolve calls over a run of SpecUnit

(***************************************************************************)
(* Error codes (src/app/app.go:39-54).                                     *)
(***************************************************************************)
ErrorOk          == 0
ErrorTxTooShort  == 1
ErrorTxBadSign   == 2
ErrorUnexpected  == 3
ErrorUnknownUser == 4
ErrorUnauth      == 5
ErrorBadFormat   == 6
ErrorNotFound    == 7

(***************************************************************************)
(* Byte strings.  PubKeys are 32 bytes long, Sigs 64 bytes.                *)
(***************************************************************************)
PubKeys == {"kR", "kA", "kB", "kD"}
Sigs    == {"sA_login_kD", "sB_login_kD"}

\* ed25519.Sign: the signature bytes are determined by signer and message;
\* a message is the account type name and the child's public key.
SignerOf == [s \in Sigs |-> IF s = "sA_login_kD" THEN "kA" ELSE "kB"]
SignedMsg == [s \in Sigs |-> [typeName |-> "login", pubKey |-> "kD"]]

verifySignature(pubKey, message, sig) ==
    /\ pubKey \in PubKeys        \* len(pubKey) = ed25519.PublicKeySize
    /\ sig \in Sigs              \* len(sig) = ed25519.SignatureSize
    /\ SignerOf[sig] = pubKey
    /\ SignedMsg[sig] = message

\* base64.RawURLEncoding of the byte strings of the model.
B64Table ==
    [b \in PubKeys \cup Sigs |->
        CASE b = "kR" -> "a1I"
          [] b = "kA" -> "a0E"
          [] b = "kB" -> "a0I"
          [] b = "kD" -> "a0Q"
          [] b = "sA_login_kD" -> "c0FfbG9naW4"
          [] b = "sB_login_kD" -> "c0JfbG9naW4"]

EncodeToString(b) == IF b = "" THEN "" ELSE B64Table[b]

\* DecodeString of a one-segment string; ok is FALSE for text that is not
\* the base64url form of a byte string of the model.
DecodeString(s) ==
    IF s = <<>> THEN [ok |-> TRUE, b |-> ""]
    ELSE IF Len(s) = 1 /\ \E b \in DOMAIN B64Table : B64Table[b] = s[1]
         THEN [ok |-> TRUE, b |-> CHOOSE b \in DOMAIN B64Table : B64Table[b] = s[1]]
         ELSE [ok |-> FALSE, b |-> ""]

(***************************************************************************)
(* Go values.  A map has the fixed key universe MapKeys; a key that is not *)
(* in the map is bound to Missing.  A typed-nil map (the nil that          *)
(* assembleAccountData returns, held in an interface{}) has no keys and is *)
(* not equal to the untyped nil GoNil.                                     *)
(***************************************************************************)
MapKeys == {"pubKey", "sign", "created", "expires", "hash", "lastBlockHeight",
            "Block", "Evidence", "Validator"}

Missing   == [t |-> "missing"]
GoNil     == [t |-> "nil"]
GoStr(s)  == [t |-> "string", s |-> s]
GoBytes(b) == [t |-> "bytes", b |-> b]
GoInt(i)  == [t |-> "int", i |-> i]
GoNum(n)  == [t |-> "jsonNumber", n |-> n]     \* json.Number, its literal
GoArr(a)  == [t |-> "array", a |-> a]
GoMap(m)  == [t |-> "map", m |-> m]

EmptyMapBody == [k \in MapKeys |-> Missing]
MapOf(k1, v1) == GoMap([EmptyMapBody EXCEPT ![k1] = v1])
MapOf2(k1, v1, k2, v2) == GoMap([EmptyMapBody EXCEPT ![k1] = v1, ![k2] = v2])
HasKey(v, k) == v.t = "map" /\ v.m[k] # Missing

(***************************************************************************)
(* The typed-value codec, at the level of tags: what ToBadgerType stores   *)
(* for a value and what fromBadgerType returns for it.  (The byte layout   *)
(* is modelled separately.)                                                *)
(***************************************************************************)
typeInt    == 2
typeFloat  == 3
typeString == 4
typeBytes  == 5
typeArray  == 6
typeMap    == 7

NoEntry == [tag |-> 0]     \* no entry under this key

\* strconv.ParseInt / ParseUint / ParseFloat of a json.Number literal
NumLiterals == {"7", "1e5"}
ParseNumber(n) ==
    IF n = "7" THEN [ok |-> TRUE, i |-> 7] ELSE [ok |-> FALSE, i |-> 0]

ScalarToBadger(v) ==
    CASE v.t = "string"     -> [err |-> FALSE, enc |-> [tag |-> typeString, s |-> v.s]]
      [] v.t = "bytes"      -> [err |-> FALSE, enc |-> [tag |-> typeBytes, b |-> v.b]]
      [] v.t = "int"        -> [err |-> FALSE, enc |-> [tag |-> typeInt, i |-> v.i]]
      [] v.t = "jsonNumber" ->
            IF ParseNumber(v.n).ok
            THEN [err |-> FALSE, enc |-> [tag |-> typeInt, i |-> ParseNumber(v.n).i]]
            ELSE [err |-> TRUE, enc |-> NoEntry]
      [] v.t = "array"      -> [err |-> FALSE, enc |-> [tag |-> typeArray, a |-> v.a]]
      [] OTHER              -> [err |-> TRUE, enc |-> NoEntry]

ToBadgerType(v) ==
    IF v.t = "map"
    THEN IF \E k \in MapKeys : v.m[k] # Missing /\ ScalarToBadger(v.m[k]).err
         THEN [err |-> TRUE, enc |-> NoEntry]
         ELSE [err |-> FALSE,
               enc |-> [tag |-> typeMap,
                        m |-> [k \in MapKeys |->
                                 IF v.m[k] = Missing THEN NoEntry
                                 ELSE ScalarToBadger(v.m[k]).enc]]]
    ELSE ScalarToBadger(v)

ScalarFromBadger(e) ==
    CASE e.tag = typeString -> GoStr(e.s)
      [] e.tag = typeBytes  -> GoBytes(e.b)
      [] e.tag = typeInt    -> GoInt(e.i)
      [] e.tag = typeArray  -> GoArr(e.a)
      [] OTHER              -> GoNil

fromBadgerType(e) ==
    IF e.tag = typeMap
    THEN GoMap([k \in MapKeys |->
                  IF e.m[k] = NoEntry THEN Missing ELSE ScalarFromBadger(e.m[k])])
    ELSE ScalarFromBadger(e)

NumberToInt64(v) ==
    IF v.t = "int" THEN [ok |-> TRUE, i |-> v.i] ELSE [ok |-> FALSE, i |-> 0]

\* With(v, F) is F applied to the value of v: v is evaluated once, as a Go
\* statement evaluates the right-hand side of an assignment once.
With(v, F(_)) == CHOOSE r \in {F(x) : x \in {v}} : TRUE

(***************************************************************************)
(* The backend: a transaction or a committed store is the function from    *)
(* the keys of the model to what is stored under them.                     *)
(***************************************************************************)
Names  == {"alice", "bob"}
Hashes == {"H1"}

KeyMapKey(b) == <<"keyMap", EncodeToString(b)>>
LowerKeymapKey(b) == <<"keymap", EncodeToString(b)>>
RootAuth == <<"config", "rootUser", "auth">>
UserAuth(n) == <<"user", n, "auth">>
LoginAuth(n, l) == <<"user", n, "login", l, "auth">>
StoreX(n) == <<"user", n, "store", "x">>
Email(n) == <<"user", n, "email">>
BlockStateKey == <<"mesh", "blockState">>

Keys ==
    {RootAuth, BlockStateKey,
     <<"mesh", "genesis", "time">>, <<"mesh", "genesis", "chain_id">>,
     <<"mesh", "genesis", "consensus_params">>, <<"mesh", "genesis", "validators">>}
    \cup {UserAuth(n) : n \in Names}
    \cup {StoreX(n) : n \in Names}
    \cup {Email(n) : n \in Names}
    \cup {LoginAuth("alice", "desk")}
    \cup {KeyMapKey(b) : b \in PubKeys}
    \cup {LowerKeymapKey(b) : b \in PubKeys}
    \cup {<<"users", "email", h>> : h \in Hashes}

EmptyStore == [k \in Keys |-> NoEntry]

\* GetBadgerVal: the decoded value under key, GoNil when there is none.
GetBadgerVal(txn, key) ==
    IF key \in Keys /\ txn[key] # NoEntry THEN fromBadgerType(txn[key]) ELSE GoNil

TxnSet(txn, key, enc) == [txn EXCEPT ![key] = enc]
TxnDelete(txn, key) == [txn EXCEPT ![key] = NoEntry]

(***************************************************************************)
(* Symlink index maintenance (src/app/app.go, second half).  A regular     *)
(* expression over a path is a predicate over its segments; [^/]+ is one   *)
(* segment.                                                                *)
(***************************************************************************)
NoMatch == [ok |-> FALSE, g1 |-> <<>>]

\* pubkeySymLinkPaths[i].PathPat.FindStringSubmatch(path), i in 1..4
pubkeySymLinkMatch(i, path) ==
    CASE i = 1 -> IF path = RootAuth
                  THEN [ok |-> TRUE, g1 |-> <<"config", "rootUser">>] ELSE NoMatch
      [] i = 2 -> IF Len(path) = 3 /\ path[1] = "user" /\ path[3] = "auth"
                  THEN [ok |-> TRUE, g1 |-> SubSeq(path, 1, 2)] ELSE NoMatch
      [] i = 3 -> IF Len(path) = 5 /\ path[1] = "user" /\ path[3] = "login" /\ path[5] = "auth"
                  THEN [ok |-> TRUE, g1 |-> SubSeq(path, 1, 4)] ELSE NoMatch
      [] i = 4 -> IF Len(path) = 5 /\ path[1] = "user" /\ path[3] = "domain" /\ path[5] = "auth"
                  THEN [ok |-> TRUE, g1 |-> SubSeq(path, 1, 4)] ELSE NoMatch
NumPubkeySymLinkPaths == 4
pubkeyDestPrefix == <<"keyMap">>

\* symLinkPaths: user/<name>/email, attribute "hash", destination users/email/
symLinkMatch(path) ==
    IF Len(path) = 3 /\ path[1] = "user" /\ path[3] = "email"
    THEN [ok |-> TRUE, g1 |-> SubSeq(path, 1, 2)] ELSE NoMatch
symLinkSourceAttr == "hash"
symLinkDestPrefix == <<"users", "email">>

\* the []byte under "pubKey" of a map value, "" otherwise
PubKeyBytesOf(v) ==
    IF v.t = "map" /\ v.m["pubKey"].t = "bytes" THEN v.m["pubKey"].b ELSE ""

\* the string under attr of a map value, the empty string otherwise
AttrStringOf(v, attr) ==
    IF v.t = "map" /\ v.m[attr].t = "string" THEN v.m[attr].s ELSE <<>>

\* the tail both maintainers share: the old link goes when it points at
\* linkPath, the new link is an error when anything is stored under it
\* unlinkOld without the delete: the entry of the old value stays
unlinkOldKeeps(txn, hasOld, destPath, linkPath) == txn

unlinkOld(txn, hasOld, destPath, linkPath) ==
    LET oldLink == IF hasOld THEN GetBadgerVal(txn, destPath) ELSE GoNil
    IN  IF oldLink.t = "string" /\ oldLink.s = linkPath
        THEN TxnDelete(txn, destPath) ELSE txn

linkNew(txn, hasNew, destPath, linkPath) ==
    IF ~hasNew THEN [txn |-> txn, err |-> FALSE]
    ELSE IF GetBadgerVal(txn, destPath) # GoNil THEN [txn |-> txn, err |-> TRUE]
    ELSE [txn |-> TxnSet(txn, destPath, ToBadgerType(GoStr(linkPath)).enc),
          err |-> FALSE]

handlePubkeySymlinkChange(txn, srcPath, linkPath, destPrefix, value) ==
    LET oldPubKey == PubKeyBytesOf(GetBadgerVal(txn, srcPath))
        newPubKey == PubKeyBytesOf(value)
    IN  IF oldPubKey = newPubKey THEN [txn |-> txn, err |-> FALSE]
        ELSE linkNew(unlinkOld(txn, oldPubKey # "",
                               destPrefix \o <<EncodeToString(oldPubKey)>>, linkPath),
                     newPubKey # "",
                     destPrefix \o <<EncodeToString(newPubKey)>>, linkPath)

handleSymlinkChange(txn, srcPath, linkPath, sourceAttr, destPrefix, value) ==
    LET oldValue == AttrStringOf(GetBadgerVal(txn, srcPath), sourceAttr)
        newValue == AttrStringOf(value, sourceAttr)
    IN  IF oldValue = newValue THEN [txn |-> txn, err |-> FALSE]
        ELSE linkNew(unlinkOld(txn, oldValue # <<>>, destPrefix \o oldValue, linkPath),
                     newValue # <<>>, destPrefix \o newValue, linkPath)

\* the loop of setKey over pubkeySymLinkPaths, from entry i on; what a
\* maintainer returns is dropped, what it wrote stays in the transaction
RECURSIVE pubkeySymLinkLoop(_, _, _, _)
pubkeySymLinkLoop(txn, path, value, i) ==
    IF i > NumPubkeySymLinkPaths THEN txn
    ELSE LET matches == pubkeySymLinkMatch(i, path)
             next == IF matches.ok
                     THEN handlePubkeySymlinkChange(txn, path, matches.g1,
                                                    pubkeyDestPrefix, value).txn
                     ELSE txn
         IN  pubkeySymLinkLoop(next, path, value, i + 1)

symLinkLoop(txn, path, value) ==
    LET matches == symLinkMatch(path)
    IN  IF matches.ok
        THEN handleSymlinkChange(txn, path, matches.g1, symLinkSourceAttr,
                                 symLinkDestPrefix, value).txn
        ELSE txn

setKey(txn, path, value) ==
    With(symLinkLoop(pubkeySymLinkLoop(txn, path, value, 1), path, value), LAMBDA txn2 :
        IF value = GoNil THEN [txn |-> TxnDelete(txn2, path), err |-> FALSE]
        ELSE With(ToBadgerType(value), LAMBDA encData :
            IF encData.err THEN [txn |-> txn2, err |-> TRUE]
            ELSE [txn |-> TxnSet(txn2, path, encData.enc), err |-> FALSE]))

\* Lengths in bytes of the strings resolveSymlinkPath compares.
SegLen(seg) ==
    CASE seg = "keyMap" -> 6 [] seg = "keymap" -> 6 [] seg = "users" -> 5
      [] seg = "email" -> 5 [] seg = "user" -> 4 [] seg = "auth" -> 4
      [] seg = "H1" -> 2 [] seg = "alice" -> 5 [] seg = "bob" -> 3
      [] OTHER -> 3
RECURSIVE StrLen(_)
StrLen(path) ==
    IF path = <<>> THEN 0
    ELSE IF Len(path) = 1 THEN SegLen(path[1])
    ELSE SegLen(path[1]) + 1 + StrLen(Tail(path))

\* typ.DestPrefix == typ.DestPrefix[:len(firstSeg)], guarded by
\* len(typ.DestPrefix) > len(firstSeg): a string equals its own prefix of
\* length n exactly when n is its length.  destPrefix ends in "/".
destPrefixMatches(destPrefix, firstSeg) ==
    LET lenPrefix == StrLen(destPrefix) + 1
        lenSeg == StrLen(firstSeg)
    IN  lenPrefix > lenSeg /\ lenPrefix = lenSeg

\* resolveSymlinkPath: segments are the ":"-separated parts of the key.  One
\* pass of the outer loop runs both inner loops; a pass in which no
\* destination prefix matches leaves segments as they are, and the loop
\* condition len(segments) > 1 stays true: the call does not return.
resolveSymlinkPath(txn, segments) ==
    IF Len(segments) <= 1 THEN [hang |-> FALSE, err |-> FALSE, key |-> segments[1]]
    ELSE IF destPrefixMatches(pubkeyDestPrefix, segments[1])
            \/ destPrefixMatches(symLinkDestPrefix, segments[1])
    THEN LET symDest == GetBadgerVal(txn, segments[1])
         IN  IF symDest = GoNil THEN [hang |-> FALSE, err |-> FALSE, key |-> <<>>]
             ELSE IF symDest.t # "string" THEN [hang |-> FALSE, err |-> TRUE, key |-> <<>>]
             ELSE [hang |-> FALSE, err |-> FALSE, key |-> symDest.s \o segments[2]]
    ELSE [hang |-> TRUE, err |-> FALSE, key |-> <<>>]

(***************************************************************************)
(* The account model (src/unnamed/part_008, second half).                  *)
(***************************************************************************)
NoLogin == [Type |-> "none"]      \* a nil *loginEntry

NewLogin(type, name) ==
    [Type |-> type, Name |-> name, Parent |-> NoLogin, Pubkey |-> "",
     ParentSign |-> "", Attrs |-> EmptyMapBody, Created |-> 0, Expires |-> 0]

\* domainUserTypes.MatchFromPath: the kinds in declaration order root, user,
\* login, domain; Parent is not set here, the parent's path is returned
MatchFromPath(path) ==
    CASE path = <<"config", "rootUser">> ->
            [login |-> NewLogin("root", ""), parentPath |-> <<>>]
      [] Len(path) = 2 /\ path[1] = "user" ->
            [login |-> NewLogin("user", path[2]), parentPath |-> <<>>]
      [] Len(path) = 4 /\ path[1] = "user" /\ path[3] = "login" ->
            [login |-> NewLogin("login", path[4]), parentPath |-> SubSeq(path, 1, 2)]
      [] Len(path) = 4 /\ path[1] = "user" /\ path[3] = "domain" ->
            [login |-> NewLogin("domain", path[4]), parentPath |-> SubSeq(path, 1, 2)]
      [] OTHER -> [login |-> NoLogin, parentPath |-> <<>>]

\* login.path(); a name is one segment, so it holds no "/"
loginPath(login) ==
    CASE login.Type = "root" -> <<"config", "rootUser">>
      [] login.Type = "user" -> <<"user", login.Name>>
      [] login.Type \in {"login", "domain"} ->
            IF login.Parent = NoLogin \/ login.Parent.Type # "user" THEN <<>>
            ELSE <<"user", login.Parent.Name, login.Type, login.Name>>
      [] OTHER -> <<>>

\* One key of decodeAccountData's loop: r is [err, login].
decodeField(r, key, val, fromUser) ==
    IF r.err \/ val = Missing THEN r
    ELSE CASE key = "pubKey" ->
                IF val.t = "bytes" THEN [r EXCEPT !.login.Pubkey = val.b]
                ELSE IF val.t = "string"
                     THEN IF DecodeString(val.s).ok
                          THEN [r EXCEPT !.login.Pubkey = DecodeString(val.s).b]
                          ELSE [r EXCEPT !.err = TRUE]
                     ELSE [r EXCEPT !.err = TRUE]
           [] key = "sign" ->
                IF val.t = "bytes" THEN [r EXCEPT !.login.ParentSign = val.b]
                ELSE IF val.t = "string"
                     THEN IF DecodeString(val.s).ok
                          THEN [r EXCEPT !.login.ParentSign = DecodeString(val.s).b]
                          ELSE [r EXCEPT !.err = TRUE]
                     ELSE [r EXCEPT !.err = TRUE]
           [] key = "created" ->
                IF fromUser THEN r
                ELSE IF NumberToInt64(val).ok
                     THEN [r EXCEPT !.login.Created = NumberToInt64(val).i]
                     ELSE [r EXCEPT !.err = TRUE]
           [] key = "expires" ->
                IF NumberToInt64(val).ok
                THEN [r EXCEPT !.login.Expires = NumberToInt64(val).i]
                ELSE [r EXCEPT !.err = TRUE]
           [] OTHER -> [r EXCEPT !.login.Attrs[key] = val]

\* decodeAccountData: Name, Type and Parent are left as they are; the keys
\* are visited here in one fixed order (Go's map order is unspecified, which
\* shows only in what an ignored error leaves behind)
decodeAccountData(login, acctData, fromUser) ==
    LET r0 == [err |-> FALSE,
               login |-> [login EXCEPT !.Pubkey = "", !.ParentSign = "",
                                       !.Attrs = EmptyMapBody]]
        r1 == decodeField(r0, "pubKey", acctData["pubKey"], fromUser)
        r2 == decodeField(r1, "sign", acctData["sign"], fromUser)
        r3 == decodeField(r2, "created", acctData["created"], fromUser)
        r4 == decodeField(r3, "expires", acctData["expires"], fromUser)
        r5 == decodeField(r4, "hash", acctData["hash"], fromUser)
        r6 == decodeField(r5, "lastBlockHeight", acctData["lastBlockHeight"], fromUser)
        r7 == decodeField(r6, "Block", acctData["Block"], fromUser)
        r8 == decodeField(r7, "Evidence", acctData["Evidence"], fromUser)
    IN  decodeField(r8, "Validator", acctData["Validator"], fromUser)

\* The map assembleAccountData builds before it returns.
assembledResult(login) ==
    GoMap([k \in MapKeys |->
        CASE k = "pubKey"  -> IF login.Pubkey # "" THEN GoBytes(login.Pubkey) ELSE Missing
          [] k = "sign"    -> IF login.ParentSign # "" THEN GoBytes(login.ParentSign) ELSE Missing
          [] k = "created" -> IF login.Created > 0 THEN GoInt(login.Created) ELSE Missing
          [] k = "expires" -> IF login.Expires > 0 THEN GoInt(login.Expires) ELSE Missing
          [] OTHER         -> login.Attrs[k]])

\* assembleAccountData ends in "return nil": the caller gets a nil map, which
\* in an interface{} is a map with no keys
assembleAccountData(login) ==
    LET result == assembledResult(login)
    IN  GoMap(EmptyMapBody)

queryAccountData(login, txn, path) ==
    With(GetBadgerVal(txn, path \o <<"auth">>), LAMBDA gAcctData :
        IF gAcctData = GoNil THEN [err |-> TRUE, login |-> login]
        ELSE IF gAcctData.t # "map" THEN [err |-> TRUE, login |-> login]
        ELSE decodeAccountData(login, gAcctData.m, FALSE))

(***************************************************************************)
(* The authenticator (src/app/app-exec.go:68-128).  The index is read      *)
(* under the prefix "keymap/".                                             *)
(***************************************************************************)
isAuthKeyQuery(pubKey) == <<"keymap", EncodeToString(pubKey)>>

AuthErr == [err |-> TRUE, login |-> NoLogin]

\* the parent half of isAuth, for a login whose kind has a parent
isAuthParent(txn, login, parentPath) ==
    With(MatchFromPath(parentPath).login, LAMBDA parentLogin :
        IF login.ParentSign = "" THEN AuthErr
        ELSE IF parentLogin = NoLogin THEN AuthErr
        ELSE With(queryAccountData(parentLogin, txn, parentPath), LAMBDA pq :
            IF pq.err THEN AuthErr
            ELSE IF pq.login.Pubkey = "" THEN AuthErr
            ELSE IF ~verifySignature(pq.login.Pubkey,
                                     [typeName |-> login.Type, pubKey |-> login.Pubkey],
                                     login.ParentSign)
            THEN AuthErr
            ELSE [err |-> FALSE, login |-> [login EXCEPT !.Parent = pq.login]]))

isAuth(txn, pubKey) ==
    With(GetBadgerVal(txn, isAuthKeyQuery(pubKey)), LAMBDA gKeyPath :
        IF gKeyPath = GoNil THEN [err |-> FALSE, login |-> NoLogin]
        ELSE IF gKeyPath.t # "string" THEN AuthErr
        ELSE With(MatchFromPath(gKeyPath.s), LAMBDA matched :
            IF matched.login = NoLogin THEN AuthErr
            ELSE With(queryAccountData(matched.login, txn, gKeyPath.s), LAMBDA q :
                IF q.err THEN AuthErr
                ELSE IF q.login.Pubkey = "" THEN AuthErr
                ELSE IF q.login.Pubkey # pubKey THEN AuthErr
                ELSE IF matched.parentPath = <<>> THEN [err |-> FALSE, login |-> q.login]
                ELSE isAuthParent(txn, q.login, matched.parentPath))))

(***************************************************************************)
(* The access-control engine (src/app/app-exec.go:16-59, 153-193).         *)
(***************************************************************************)
\* a segment that begins with the text pre
SegHasPrefix(seg, pre) == seg = pre \/ <<pre, seg>> \in {<<"store", "storefront">>}

IsAuthPat(name) == name \in {"userAuth", "loginAuth", "domainAuth"}

\* permPaths[name].PathPat.FindStringSubmatch(path): n is len(matches)
permPathMatch(name, path) ==
    LET user == Len(path) >= 2 /\ path[1] = "user"
        domain == user /\ Len(path) >= 5 /\ path[3] = "domain"
        ok == CASE name = "all"             -> TRUE
                [] name = "userPrefix"      -> user /\ Len(path) >= 3
                [] name = "userAuth"        -> user /\ Len(path) = 3 /\ path[3] = "auth"
                [] name = "userPrivStore"   -> user /\ Len(path) >= 3
                                               /\ SegHasPrefix(path[3], "privStore")
                [] name = "userStore"       -> user /\ Len(path) >= 3
                                               /\ SegHasPrefix(path[3], "store")
                [] name = "loginAuth"       -> user /\ Len(path) = 5 /\ path[3] = "login"
                                               /\ path[5] = "auth"
                [] name = "domainAuth"      -> domain /\ Len(path) = 5 /\ path[5] = "auth"
                [] name = "domainPrivStore" -> domain /\ SegHasPrefix(path[5], "privStore")
                [] name = "domainStore"     -> domain /\ SegHasPrefix(path[5], "store")
                [] name = "domainLoc"       -> domain /\ SegHasPrefix(path[5], "loc")
    IN  IF ~ok THEN [ok |-> FALSE, n |-> 0, g1 |-> <<>>]
        ELSE IF name = "all" THEN [ok |-> TRUE, n |-> 1, g1 |-> <<>>]
        ELSE [ok |-> TRUE, n |-> IF name = "userAuth" THEN 3 ELSE 2,
              g1 |-> SubSeq(path, 1, 2)]

\* permissions: UserType "anon" is the nil user type
permissions ==
    << [PathPat |-> "all",             UserType |-> "root",   CanWrite |-> TRUE],
       [PathPat |-> "userPrefix",      UserType |-> "user",   CanWrite |-> FALSE],
       [PathPat |-> "userAuth",        UserType |-> "user",   CanWrite |-> TRUE],
       [PathPat |-> "userPrivStore",   UserType |-> "user",   CanWrite |-> TRUE],
       [PathPat |-> "userPrivStore",   UserType |-> "login",  CanWrite |-> TRUE],
       [PathPat |-> "userStore",       UserType |-> "anon",   CanWrite |-> FALSE],
       [PathPat |-> "userStore",       UserType |-> "user",   CanWrite |-> TRUE],
       [PathPat |-> "userStore",       UserType |-> "login",  CanWrite |-> TRUE],
       [PathPat |-> "loginAuth",       UserType |-> "login",  CanWrite |-> TRUE],
       [PathPat |-> "domainAuth",      UserType |-> "login",  CanWrite |-> TRUE],
       [PathPat |-> "domainPrivStore", UserType |-> "login",  CanWrite |-> TRUE],
       [PathPat |-> "domainPrivStore", UserType |-> "domain", CanWrite |-> TRUE],
       [PathPat |-> "domainStore",     UserType |-> "anon",   CanWrite |-> FALSE],
       [PathPat |-> "domainStore",     UserType |-> "login",  CanWrite |-> TRUE],
       [PathPat |-> "domainStore",     UserType |-> "domain", CanWrite |-> TRUE],
       [PathPat |-> "domainLoc",       UserType |-> "anon",   CanWrite |-> FALSE],
       [PathPat |-> "domainLoc",       UserType |-> "login",  CanWrite |-> TRUE],
       [PathPat |-> "domainLoc",       UserType |-> "domain", CanWrite |-> TRUE] >>

\* the apex account's path: the parent's for a login or domain
matchPrefixOf(login) ==
    IF login.Parent # NoLogin THEN loginPath(login.Parent) ELSE loginPath(login)

\* canAccess's loop from rule i on; acc is [isGranted, isAuthPath, panic].
\* A pattern without a group gives len(matches) = 1: the rule grants and then
\* reads matches[1], which is out of range.
RECURSIVE canAccessLoop(_, _, _, _, _)
canAccessLoop(forWrite, login, path, i, acc) ==
    IF i > Len(permissions) \/ acc.panic THEN acc
    ELSE LET perm == permissions[i]
             matches == permPathMatch(perm.PathPat, path)
             grant == [acc EXCEPT !.isGranted = TRUE,
                                  !.isAuthPath = @ \/ IsAuthPat(perm.PathPat)]
         IN  IF login.Type # perm.UserType \/ (forWrite /\ ~perm.CanWrite)
             THEN canAccessLoop(forWrite, login, path, i + 1, acc)
             ELSE IF ~matches.ok
             THEN canAccessLoop(forWrite, login, path, i + 1, acc)
             ELSE IF matches.n <= 1 THEN [grant EXCEPT !.panic = TRUE]
             ELSE IF matches.g1 = matchPrefixOf(login)
             THEN canAccessLoop(forWrite, login, path, i + 1, grant)
             ELSE canAccessLoop(forWrite, login, path, i + 1, acc)

\* canAccess without the comparison of matches[1] with the apex account's path
canAccessAnyPrefix(forWrite, login, path) ==
    [isGranted |-> \E i \in 1..Len(permissions) :
                      /\ login.Type = permissions[i].UserType
                      /\ ~forWrite \/ permissions[i].CanWrite
                      /\ permPathMatch(permissions[i].PathPat, path).ok,
     isAuthPath |-> FALSE, panic |-> FALSE]

canAccess(forWrite, login, path) ==
    canAccessLoop(forWrite, login, path, 1,
                  [isGranted |-> FALSE, isAuthPath |-> FALSE, panic |-> FALSE])

(***************************************************************************)
(* The transaction engine (src/app/app-exec.go:195-326).  A transaction is *)
(* [kind, pkey, sigOk, form, entries]: kind is "short" (fewer than 96      *)
(* bytes), "zero" (an all-zero 96-byte prefix) or "signed"; form is the    *)
(* shape of the JSON body; entries are the body's (key, value) pairs in    *)
(* the order the engine visits them.  A nil block transaction is           *)
(* [open |-> FALSE]; touching it is a nil dereference.                     *)
(***************************************************************************)
NilBatch == [open |-> FALSE, txn |-> EmptyStore]
OpenBatch(txn) == [open |-> TRUE, txn |-> txn]

userAuthMatch(key) == permPathMatch("userAuth", key)

\* selfRegistration without the test of the decoded name
selfRegistrationAnyName(tx, key, value, created) ==
    With(decodeAccountData([NewLogin("user", "") EXCEPT !.Created = created], value.m, TRUE),
         LAMBDA dec :
            [selfSigned |-> ~dec.err /\ dec.login.Pubkey = tx.pkey,
             login |-> dec.login])

\* the self-registration test both isValid and executeTx make of a map value
\* sent without an authenticated account
selfRegistration(tx, key, value, created) ==
    With(decodeAccountData([NewLogin("user", "") EXCEPT !.Created = created], value.m, TRUE),
         LAMBDA dec :
            [selfSigned |-> ~dec.err /\ dec.login.Name # "" /\ dec.login.Pubkey = tx.pkey,
             login |-> dec.login])

Verdict(code, info) == [code |-> code, info |-> info, hang |-> FALSE, panic |-> FALSE]
Hang  == [code |-> ErrorOk, info |-> "", hang |-> TRUE, panic |-> FALSE]
Panic == [code |-> ErrorOk, info |-> "", hang |-> FALSE, panic |-> TRUE]
Fine(v) == v.code = ErrorOk /\ ~v.hang /\ ~v.panic

Said(code, info, value) == [v |-> Verdict(code, info), value |-> value]

\* the map value of a transaction that names no account (lines 207-226 and
\* 297-318): [v, value] with value what executeTx then hands to setKey
anonymousMap(tx, batch, key, value, created) ==
    IF ~userAuthMatch(key).ok
    THEN Said(ErrorUnknownUser, "did not recognize key", value)
    ELSE With(selfRegistration(tx, key, value, created), LAMBDA sr :
        IF ~sr.selfSigned THEN Said(ErrorUnknownUser, "did not recognize key", value)
        ELSE IF ~batch.open THEN [v |-> Panic, value |-> value]
        ELSE IF GetBadgerVal(batch.txn, key) # GoNil
        THEN Said(ErrorUnauth, "already exists", value)
        ELSE Said(ErrorOk, "", assembleAccountData(sr.login)))

\* isValid for one entry whose key resolved; batch is app.currentBatch
isValidKey(tx, login, batch, key, value) ==
    IF login # NoLogin
    THEN With(canAccess(TRUE, login, key), LAMBDA ca :
            IF ca.panic THEN Panic
            ELSE IF ~ca.isGranted THEN Verdict(ErrorUnauth, "not authorized")
            ELSE Verdict(ErrorOk, ""))
    ELSE IF value.t = "map" THEN anonymousMap(tx, batch, key, value, 0).v
    ELSE Verdict(ErrorOk, "")

isValidEntry(tx, login, batch, kv) ==
    With(resolveSymlinkPath(batch.txn, kv.key), LAMBDA rs :
        IF rs.hang THEN Hang
        ELSE IF rs.err THEN Verdict(ErrorUnexpected, "resolve")
        ELSE IF rs.key = <<>> THEN Verdict(ErrorNotFound, "could not be resolved")
        ELSE isValidKey(tx, login, batch, rs.key, kv.value))

RECURSIVE isValidLoop(_, _, _, _)
isValidLoop(tx, login, batch, i) ==
    IF i > Len(tx.entries) THEN Verdict(ErrorOk, "")
    ELSE With(isValidEntry(tx, login, batch, tx.entries[i]), LAMBDA v :
            IF Fine(v) THEN isValidLoop(tx, login, batch, i + 1) ELSE v)

isValid(tx, login, batch) == isValidLoop(tx, login, batch, 1)

\* the parent's countersignature of a rewritten auth record (lines 274-287)
parentSigned(req, batch, value) ==
    With(queryAccountData(req.Parent, batch.txn, loginPath(req.Parent)), LAMBDA pq :
        IF pq.err THEN Said(ErrorBadFormat, "parent", value)
        ELSE IF pq.login.Pubkey = "" THEN Said(ErrorBadFormat, "missing pubKey", value)
        ELSE IF ~verifySignature(pq.login.Pubkey,
                                 [typeName |-> req.Type, pubKey |-> req.Pubkey],
                                 req.ParentSign)
        THEN Said(ErrorBadFormat, "signature was failed by its parent", value)
        ELSE Said(ErrorOk, "", assembleAccountData(req)))

\* the stored record of an auth path as the base of the new one (lines 255-267)
cleanedLogin(matched, gAcctData, lastBlockHeight) ==
    LET old == IF gAcctData.t = "map"
               THEN decodeAccountData(matched, gAcctData.m, FALSE).login
               ELSE matched
    IN  [old EXCEPT !.Attrs = EmptyMapBody,
                    !.Created = IF @ = 0 THEN lastBlockHeight + 1 ELSE @]

\* the rewrite of an authenticated write to an auth path (lines 249-295):
\* [v, value] with v the verdict and value what is then handed to setKey
rewriteAuthValue(login, batch, key, value, lastBlockHeight) ==
    With(MatchFromPath(key).login, LAMBDA matched :
        IF matched = NoLogin
        THEN Said(ErrorUnexpected, "cannot resolve the token type", value)
        ELSE IF ~batch.open THEN [v |-> Panic, value |-> value]
        ELSE IF value.t # "map" THEN Said(ErrorBadFormat, "not a map", value)
        ELSE With(decodeAccountData(cleanedLogin(matched, GetBadgerVal(batch.txn, key),
                                                 lastBlockHeight),
                                    value.m, TRUE),
                  LAMBDA dec :
                    IF dec.err THEN Said(ErrorBadFormat, "decode", value)
                    ELSE IF dec.login.Parent # NoLogin
                    THEN parentSigned(dec.login, batch, value)
                    ELSE Said(ErrorOk, "", assembleAccountData(dec.login))))

\* whether setKey reads or writes its transaction for this path and value
setKeyTouchesTxn(path, value) ==
    \/ \E i \in 1..NumPubkeySymLinkPaths : pubkeySymLinkMatch(i, path).ok
    \/ symLinkMatch(path).ok
    \/ value = GoNil
    \/ ~ToBadgerType(value).err

\* executeTx's checks of one entry whose key resolved: [v, value]
executeKey(tx, login, batch, key, value, lastBlockHeight) ==
    IF login # NoLogin
    THEN With(canAccess(TRUE, login, key), LAMBDA ca :
            IF ca.panic THEN [v |-> Panic, value |-> value]
            ELSE IF ~ca.isGranted THEN Said(ErrorUnauth, "not authorized", value)
            ELSE IF ca.isAuthPath
            THEN rewriteAuthValue(login, batch, key, value, lastBlockHeight)
            ELSE Said(ErrorOk, "", value))
    ELSE IF value.t = "map"
    THEN anonymousMap(tx, batch, key, value, lastBlockHeight + 1)
    ELSE Said(ErrorOk, "", value)

\* the write that ends an entry of executeTx: [v, batch]
executeSet(batch, key, value) ==
    IF ~batch.open /\ setKeyTouchesTxn(key, value) THEN [v |-> Panic, batch |-> batch]
    ELSE With(setKey(batch.txn, key, value), LAMBDA set :
            [v |-> IF set.err THEN Verdict(ErrorUnexpected, "setKey") ELSE Verdict(ErrorOk, ""),
             batch |-> [batch EXCEPT !.txn = set.txn]])

\* executeTx for one entry: [v, batch]
executeEntry(tx, login, batch, kv, lastBlockHeight) ==
    With(resolveSymlinkPath(batch.txn, kv.key), LAMBDA rs :
        IF rs.hang THEN [v |-> Hang, batch |-> batch]
        ELSE IF rs.err THEN [v |-> Verdict(ErrorUnexpected, "resolve"), batch |-> batch]
        ELSE IF rs.key = <<>>
        THEN [v |-> Verdict(ErrorNotFound, "could not be resolved"), batch |-> batch]
        ELSE With(executeKey(tx, login, batch, rs.key, kv.value, lastBlockHeight),
                  LAMBDA pre :
                    IF ~Fine(pre.v) THEN [v |-> pre.v, batch |-> batch]
                    ELSE executeSet(batch, rs.key, pre.value)))

\* executeTx: the entries in order, each against what the earlier ones left
\* in the block transaction; the first failure returns at once
RECURSIVE executeLoop(_, _, _, _, _)
executeLoop(tx, login, batch, i, lastBlockHeight) ==
    IF i > Len(tx.entries) THEN [v |-> Verdict(ErrorOk, ""), batch |-> batch, failedAt |-> 0]
    ELSE With(executeEntry(tx, login, batch, tx.entries[i], lastBlockHeight), LAMBDA r :
            IF Fine(r.v) THEN executeLoop(tx, login, r.batch, i + 1, lastBlockHeight)
            ELSE [v |-> r.v, batch |-> r.batch, failedAt |-> i])

executeTx(tx, login, batch, lastBlockHeight) ==
    executeLoop(tx, login, batch, 1, lastBlockHeight)

\* unpackTx (src/app/app.go:188-211): body is assigned only in the branch of
\* a non-zero prefix, so for the all-zero prefix the JSON decoder reads an
\* empty body and fails
unpackTx(tx) ==
    IF tx.kind = "short" THEN Verdict(ErrorTxTooShort, "Tx too short")
    ELSE IF tx.kind = "zero" THEN Verdict(ErrorBadFormat, "EOF")
    ELSE IF ~tx.sigOk THEN Verdict(ErrorTxBadSign, "Transaction signature invalid")
    ELSE IF tx.form = "invalid" THEN Verdict(ErrorBadFormat, "json")
    ELSE Verdict(ErrorOk, "")

Response(v, batch, stage, login, failedAt) ==
    [v |-> v, batch |-> batch, stage |-> stage, login |-> login, failedAt |-> failedAt]

\* what DeliverTx and CheckTx share: unpackTx, the JSON object test, isAuth
\* against the committed store, isValid.  [passed, login, resp]: resp is the
\* response when a stage fails.
admit(tx, store, batch) ==
    With(unpackTx(tx), LAMBDA un :
        IF ~Fine(un)
        THEN [passed |-> FALSE, login |-> NoLogin,
              resp |-> Response(un, batch, "unpackTx", NoLogin, 0)]
        ELSE IF tx.form # "object"
        THEN [passed |-> FALSE, login |-> NoLogin,
              resp |-> Response(Verdict(ErrorBadFormat, "must be a valid JSON object"),
                                batch, "form", NoLogin, 0)]
        ELSE With(isAuth(store, tx.pkey), LAMBDA auth :
            IF auth.err
            THEN [passed |-> FALSE, login |-> NoLogin,
                  resp |-> Response(Verdict(ErrorUnexpected, "isAuth"),
                                    batch, "isAuth", NoLogin, 0)]
            ELSE With(isValid(tx, auth.login, batch), LAMBDA valid :
                [passed |-> Fine(valid), login |-> auth.login,
                 resp |-> Response(valid, batch, "isValid", auth.login, 0)])))

\* DeliverTx up to its response: [v, batch, stage, login, failedAt]
deliver(tx, store, batch, lastBlockHeight) ==
    With(admit(tx, store, batch), LAMBDA adm :
        IF ~adm.passed THEN adm.resp
        ELSE With(executeTx(tx, adm.login, batch, lastBlockHeight), LAMBDA exec :
                Response(exec.v, exec.batch, "executeTx", adm.login, exec.failedAt)))

\* CheckTx that goes on to executeTx as DeliverTx does
checkExecuting(tx, store, batch) == deliver(tx, store, batch, 0)

\* CheckTx up to its response: the response of the last stage, with the block
\* transaction as the stages left it
check(tx, store, batch) == admit(tx, store, batch).resp

(***************************************************************************)
(* Queries (src/app/app-exec.go:328-411, src/app/app.go:277-327).  A query *)
(* is framed as a transaction is; its body is a JSON string (form          *)
(* "string", one key) or an array (form "array"); keys are the elements in *)
(* order, each [isString, key].  The store doQuery reads is a view of the  *)
(* committed store, as isAuth's is.                                        *)
(***************************************************************************)
\* assembleQueryData ends in "return nil" as assembleAccountData does
assembleQueryData(login) == GoMap(EmptyMapBody)

\* the auth record under key, for a reader who sees all of it (limited
\* FALSE) or the public part only
queryAuthRecord(txn, key, limited) ==
    With(MatchFromPath(key), LAMBDA mp :
        IF mp.login = NoLogin
        THEN Said(ErrorUnexpected, "cannot resolve the token type", GoNil)
        ELSE With(GetBadgerVal(txn, key), LAMBDA gAcctData :
            IF gAcctData = GoNil THEN Said(ErrorOk, "", GoNil)
            ELSE IF gAcctData.t # "map"
            THEN Said(ErrorUnexpected, "Unexpected account object", GoNil)
            ELSE With(decodeAccountData(mp.login, gAcctData.m, FALSE), LAMBDA dec :
                IF dec.err THEN Said(ErrorUnexpected, "decode", GoNil)
                ELSE IF limited
                THEN Said(ErrorOk, "",
                          assembleAccountData([NewLogin(dec.login.Type, "") EXCEPT
                                                  !.Pubkey = dec.login.Pubkey,
                                                  !.Attrs = dec.login.Attrs]))
                ELSE Said(ErrorOk, "", assembleQueryData(dec.login)))))

\* doQuery for an authenticated login, from canAccess on
doQueryAs(txn, fullKey, login) ==
    With(canAccess(FALSE, login, fullKey), LAMBDA ca :
        IF ca.panic THEN [v |-> Panic, value |-> GoNil]
        ELSE IF ~ca.isGranted THEN Said(ErrorUnauth, "Not authorized to read", GoNil)
        ELSE IF ca.isAuthPath THEN queryAuthRecord(txn, fullKey, FALSE)
        ELSE Said(ErrorOk, "", GetBadgerVal(txn, fullKey)))

\* [v, value]: the code and message, and the value of the response
doQuery(txn, key, login) ==
    With(resolveSymlinkPath(txn, key), LAMBDA rs :
        IF rs.hang THEN [v |-> Hang, value |-> GoNil]
        ELSE IF rs.err THEN Said(ErrorUnexpected, "resolve", GoNil)
        ELSE IF rs.key = <<>> THEN Said(ErrorOk, "", GoNil)
        ELSE IF login # NoLogin THEN doQueryAs(txn, rs.key, login)
        ELSE IF ~userAuthMatch(rs.key).ok
        THEN Said(ErrorUnauth, "requires a valid user", GoNil)
        ELSE queryAuthRecord(txn, rs.key, TRUE))

\* the result of an array query: the set of (key, value) pairs of the map
QueryResult(pairs) == [t |-> "result", pairs |-> pairs]

RECURSIVE queryLoop(_, _, _, _, _)
queryLoop(txn, keys, login, i, pairs) ==
    IF i > Len(keys) THEN Said(ErrorOk, "", QueryResult(pairs))
    ELSE IF ~keys[i].isString
    THEN Said(ErrorBadFormat, "must be a JSON string array or string literal", GoNil)
    ELSE With(doQuery(txn, keys[i].key, login), LAMBDA r :
            IF ~Fine(r.v) THEN [v |-> r.v, value |-> GoNil]
            ELSE queryLoop(txn, keys, login, i + 1,
                           pairs \cup {[key |-> keys[i].key, val |-> r.value]}))

\* Query up to the value it marshals: [v, value]
query(q, store) ==
    With(unpackTx(q), LAMBDA un :
        IF ~Fine(un) THEN [v |-> un, value |-> GoNil]
        ELSE With(isAuth(store, q.pkey), LAMBDA auth :
            IF auth.err THEN Said(ErrorUnexpected, "isAuth", GoNil)
            ELSE IF q.form = "string" THEN doQuery(store, q.keys[1].key, auth.login)
            ELSE IF q.form = "array" THEN queryLoop(store, q.keys, auth.login, 1, {})
            ELSE Said(ErrorBadFormat, "must be a JSON string array or string literal",
                      GoNil)))

(***************************************************************************)
(* The application state and the ABCI lifecycle (src/app/app.go:18-358).   *)
(***************************************************************************)
VARIABLES
    db,            \* app.db: the committed store
    currentBatch,  \* app.currentBatch: the block's read-write transaction
    treeState,     \* app.treeState: lastBlockHeight, nextBlockHeight
    status,        \* "running", "hung" (a call that does not return) or
                   \* "panicked" (a nil dereference or an index out of range)
    chainInit,     \* InitChain has been called
    driverHeight,  \* the consensus driver's count of committed blocks
    calls,         \* DeliverTx, CheckTx and Query calls (setKey, engine and resolve
                   \* calls in SpecUnit)
    last,          \* the last call and its response
    before,        \* app.currentBatch as it was when the last call began
    pendingReg,    \* self-registrations delivered in the open block
    committedReg,  \* self-registrations delivered in committed blocks
    discarded,     \* the writes of the transactions that BeginBlock dropped since
                   \* the last Commit and that no later DeliverTx made again
    firstCycle     \* the run-one-cycle signal: the variable FirstCycleComplete
                   \* (channel "nil" or "made"), the times the channel was
                   \* closed, and where main is

vars == <<db, currentBatch, treeState, status, chainInit, driverHeight, calls,
          last, before, pendingReg, committedReg, firstCycle, discarded>>

\* main (src/unnamed/part_007:64-84) is at "init" before it has read its
\* action; with the action node it starts the service and waits for an
\* interrupt ("node"); with the action once it makes the channel and starts
\* the service ("started"), then receives from the channel variable: from
\* the channel it made ("waiting") or, when Commit has set the variable to
\* nil before main read it, from a nil channel ("stuck"); a receive from the
\* closed channel returns and main ends ("exited").
NodeMode == [channel |-> "nil", closes |-> 0, main |-> "node"]

\* Commit's close(FirstCycleComplete) without the assignment of nil after it
closeKeepsChannel(fc) ==
    IF fc.channel # "nil" THEN [fc EXCEPT !.closes = @ + 1] ELSE fc

\* Commit, lines 352-356; app.singleBlockEvent (lines 348-351) is assigned
\* nowhere and stays nil
closeFirstCycleComplete(fc) ==
    IF fc.channel # "nil" THEN [fc EXCEPT !.channel = "nil", !.closes = @ + 1] ELSE fc

NoTx == [kind |-> "none"]
NoCall == [op |-> "none", tx |-> NoTx, code |-> ErrorOk, info |-> "", stage |-> "",
           login |-> NoLogin, failedAt |-> 0]
Call(op, tx, r) == [op |-> op, tx |-> tx, code |-> r.v.code, info |-> r.v.info,
                    stage |-> r.stage, login |-> r.login, failedAt |-> r.failedAt]
Lifecycle(op) == [NoCall EXCEPT !.op = op]

(***************************************************************************)
(* The inputs of the model.                                                *)
(***************************************************************************)
Signers == {"kA", "kB"}

RegValue(pk) == MapOf("pubKey", GoStr(<<EncodeToString(pk)>>))
LoginValue(pk, sig) ==
    MapOf2("pubKey", GoStr(<<EncodeToString(pk)>>), "sign", GoStr(<<EncodeToString(sig)>>))

Entry(path, value) == [key |-> <<path>>, value |-> value]

Entries ==
    {Entry(UserAuth("alice"), RegValue("kA")),
     Entry(UserAuth("alice"), RegValue("kB")),
     Entry(UserAuth("alice"), GoStr(<<"v">>)),
     Entry(UserAuth("bob"), RegValue("kB")),
     Entry(LoginAuth("alice", "desk"), LoginValue("kD", "sA_login_kD")),
     Entry(LoginAuth("alice", "desk"), LoginValue("kD", "sB_login_kD")),
     Entry(LoginAuth("alice", "desk"), GoStr(<<"v">>)),
     Entry(StoreX("alice"), GoStr(<<"v">>)),
     Entry(StoreX("alice"), GoNil),
     Entry(StoreX("alice"), GoNum("1e5")),
     Entry(StoreX("alice"), RegValue("kA")),
     Entry(LowerKeymapKey("kA"), GoStr(<<"user", "alice">>)),
     [key |-> << <<"users", "email", "H1">>, <<"auth">> >>, value |-> GoStr(<<"v">>)]}

\* the two-entry transactions
Pairs ==
    {<<Entry(StoreX("alice"), GoStr(<<"v">>)), Entry(StoreX("bob"), GoNum("1e5"))>>,
     <<Entry(StoreX("alice"), GoStr(<<"v">>)), Entry(StoreX("bob"), GoStr(<<"v">>))>>,
     <<Entry(StoreX("alice"), GoStr(<<"v">>)), Entry(UserAuth("alice"), RegValue("kA"))>>,
     <<Entry(UserAuth("alice"), RegValue("kA")), Entry(StoreX("alice"), GoStr(<<"v">>))>>,
     <<Entry(UserAuth("alice"), RegValue("kA")), Entry(UserAuth("alice"), RegValue("kA"))>>,
     <<Entry(UserAuth("alice"), GoStr(<<"v">>)), Entry(UserAuth("alice"), GoNil)>>}

SignedTx(pk, entries) ==
    [kind |-> "signed", pkey |-> pk, sigOk |-> TRUE, form |-> "object", entries |-> entries]

Malformed ==
    {[kind |-> "short", pkey |-> "", sigOk |-> FALSE, form |-> "invalid", entries |-> <<>>],
     [kind |-> "zero", pkey |-> "", sigOk |-> FALSE, form |-> "object",
      entries |-> <<Entry(UserAuth("alice"), RegValue("kA"))>>],
     [SignedTx("kA", <<Entry(StoreX("alice"), GoStr(<<"v">>))>>) EXCEPT !.sigOk = FALSE],
     [SignedTx("kA", <<Entry(StoreX("alice"), GoStr(<<"v">>))>>) EXCEPT !.form = "array"],
     [SignedTx("kA", <<>>) EXCEPT !.form = "invalid"]}

Txs ==
    {SignedTx(pk, <<e>>) : pk \in Signers, e \in Entries}
    \cup {SignedTx("kA", p) : p \in Pairs}
    \cup Malformed

\* the transactions offered to CheckTx
CheckTxs ==
    {SignedTx("kA", <<e>>) : e \in Entries} \cup Malformed

\* the queries offered to Query
QueryKey(key) == [isString |-> TRUE, key |-> key]
NotAKey == [isString |-> FALSE, key |-> <<>>]

QueryTx(pk, form, keys) ==
    [kind |-> "signed", pkey |-> pk, sigOk |-> TRUE, form |-> form, keys |-> keys]

EmptyPath == << <<>> >>
ColonKey == << <<"users", "email", "H1">>, <<"auth">> >>

QueryKeys ==
    {<<UserAuth("alice")>>, <<LoginAuth("alice", "desk")>>, <<StoreX("alice")>>,
     <<RootAuth>>, EmptyPath, ColonKey}

Queries ==
    {QueryTx("kA", "string", <<QueryKey(k)>>) : k \in QueryKeys}
    \cup {QueryTx("kA", "array", <<QueryKey(<<StoreX("alice")>>)>>),
          QueryTx("kA", "array", <<QueryKey(EmptyPath), NotAKey>>),
          QueryTx("kA", "object", <<>>),
          [QueryTx("", "string", <<QueryKey(<<UserAuth("alice")>>)>>)
              EXCEPT !.kind = "zero", !.sigOk = FALSE]}

\* the genesis document of InitChain
Genesis == [time |-> "t0", chainId |-> <<"athenamesh-1">>,
            consensus |-> GoMap([EmptyMapBody EXCEPT !["Block"] = GoInt(1),
                                                     !["Evidence"] = GoInt(2),
                                                     !["Validator"] = GoInt(3)])]

\* the self-registration of the specification: signed with pk, one entry
\* user/<name>/auth whose pubKey is base64url(pk)
IsRegTx(tx, name, pk) ==
    tx = SignedTx(pk, <<[key |-> <<UserAuth(name)>>, value |-> RegValue(pk)]>>)

Init ==
    /\ db = EmptyStore
    /\ currentBatch = NilBatch
    /\ treeState = [lastBlockHeight |-> 0, nextBlockHeight |-> 0]
    /\ status = "running"
    /\ chainInit = FALSE
    /\ driverHeight = 0
    /\ calls = 0
    /\ last = NoCall
    /\ before = NilBatch
    /\ pendingReg = {}
    /\ committedReg = {}
    /\ discarded = {}
    /\ firstCycle = NodeMode

\* createRootUser (src/app/app-exec.go:130-151) on the update transaction
createRootUser(txn, pubkey) ==
    LET login == [NewLogin("root", "") EXCEPT !.Pubkey = pubkey]
        acctPath == loginPath(login) \o <<"auth">>
    IN  IF GetBadgerVal(txn, acctPath) # GoNil THEN [txn |-> txn, err |-> TRUE]
        ELSE setKey(txn, acctPath, assembleAccountData(login))

\* the body of InitChain's db.Update: an error rolls the update back.  The
\* sections of the consensus parameters are one number each here; the
\* validators key receives the consensus map, as in the source.
initChainUpdate(txn, pubb, genesis) ==
    With(createRootUser(txn, pubb), LAMBDA s1 :
    With(setKey(s1.txn, <<"mesh", "genesis", "time">>, GoBytes(genesis.time)), LAMBDA s2 :
    With(setKey(s2.txn, <<"mesh", "genesis", "chain_id">>, GoStr(genesis.chainId)), LAMBDA s3 :
    With(setKey(s3.txn, <<"mesh", "genesis", "consensus_params">>, genesis.consensus), LAMBDA s4 :
    With(setKey(s4.txn, <<"mesh", "genesis", "validators">>, genesis.consensus), LAMBDA s5 :
        IF s1.err \/ s2.err \/ s3.err \/ s4.err \/ s5.err THEN txn ELSE s5.txn)))))

InitChain ==
    /\ status = "running" /\ ~chainInit /\ ~currentBatch.open
    /\ db' = initChainUpdate(db, "kR", Genesis)
    /\ chainInit' = TRUE
    /\ last' = Lifecycle("InitChain")
    /\ before' = currentBatch
    /\ UNCHANGED <<currentBatch, treeState, status, driverHeight, calls,
                   pendingReg, committedReg, firstCycle, discarded>>

\* BeginBlock that opens no transaction
beginTransactionNone(batch, store) == batch

\* BeginBlock keeping the transaction that is open
beginTransactionKeep(batch, store) == IF batch.open THEN batch ELSE OpenBatch(store)

\* app.currentBatch = app.db.NewTransaction(true), whatever batch was
beginTransaction(batch, store) == OpenBatch(store)

\* the writes of batch: the entries that differ from the committed store
writesOf(batch, store) ==
    {[key |-> k, enc |-> batch.txn[k]] : k \in {x \in Keys : batch.txn[x] # store[x]}}

\* a transaction already open is dropped with a log line
BeginBlock ==
    /\ status = "running" /\ driverHeight < MaxHeight
    /\ currentBatch' = beginTransaction(currentBatch, db)
    /\ last' = Lifecycle("BeginBlock")
    /\ before' = currentBatch
    /\ pendingReg' = {}
    /\ discarded' = IF currentBatch.open
                    THEN discarded \cup writesOf(currentBatch, db)
                    ELSE {}
    /\ UNCHANGED <<db, treeState, status, chainInit, driverHeight, calls, committedReg,
                   firstCycle>>

newRegs(tx, batch) ==
    {r \in [name : Names, pkey : Signers] :
        /\ IsRegTx(tx, r.name, r.pkey)
        /\ batch.open /\ GetBadgerVal(batch.txn, UserAuth(r.name)) = GoNil
        /\ \A q \in pendingReg \cup committedReg : q.pkey # r.pkey /\ q.name # r.name}

DeliverTx(tx) ==
    /\ status = "running" /\ calls < MaxCalls
    /\ \E r \in {deliver(tx, db, currentBatch, treeState.lastBlockHeight)} :
        /\ status' = IF r.v.hang THEN "hung" ELSE IF r.v.panic THEN "panicked" ELSE status
        /\ currentBatch' = IF r.v.hang \/ r.v.panic THEN currentBatch ELSE r.batch
        /\ last' = Call("DeliverTx", tx, r)
    /\ calls' = calls + 1
    /\ before' = currentBatch
    /\ pendingReg' = pendingReg \cup newRegs(tx, currentBatch)
    /\ discarded' = {p \in discarded : currentBatch'.txn[p.key] = currentBatch.txn[p.key]}
    /\ UNCHANGED <<db, treeState, chainInit, driverHeight, committedReg, firstCycle>>

\* CheckTx: DeliverTx without executeTx
CheckTx(tx) ==
    /\ status = "running" /\ calls < MaxCalls
    /\ \E r \in {check(tx, db, currentBatch)} :
        /\ status' = IF r.v.hang THEN "hung" ELSE IF r.v.panic THEN "panicked" ELSE status
        /\ currentBatch' = IF r.v.hang \/ r.v.panic THEN currentBatch ELSE r.batch
        /\ last' = Call("CheckTx", tx, r)
    /\ calls' = calls + 1
    /\ before' = currentBatch
    /\ UNCHANGED <<db, treeState, chainInit, driverHeight,
                   pendingReg, committedReg, firstCycle, discarded>>

\* Query: the response's code, message and value
Query(q) ==
    /\ status = "running" /\ calls < MaxCalls
    /\ \E r \in {query(q, db)} :
        /\ status' = IF r.v.hang THEN "hung" ELSE IF r.v.panic THEN "panicked" ELSE status
        /\ last' = [op |-> "Query", tx |-> q, code |-> r.v.code, info |-> r.v.info,
                    value |-> r.value]
    /\ calls' = calls + 1
    /\ before' = currentBatch
    /\ UNCHANGED <<db, currentBatch, treeState, chainInit, driverHeight,
                   pendingReg, committedReg, firstCycle, discarded>>

\* the driver ends block driverHeight + 1
EndBlock ==
    /\ status = "running" /\ driverHeight < MaxHeight
    /\ treeState' = [treeState EXCEPT !.nextBlockHeight = driverHeight + 1]
    /\ last' = Lifecycle("EndBlock")
    /\ before' = currentBatch
    /\ UNCHANGED <<db, currentBatch, status, chainInit, driverHeight, calls,
                   pendingReg, committedReg, firstCycle, discarded>>

\* updateLastBlockHeight storing the height of the block before
updateLastBlockHeightStale(txn, nextBlockHeight) ==
    TxnSet(txn, BlockStateKey,
           ToBadgerType(MapOf("lastBlockHeight", GoInt(nextBlockHeight - 1))).enc)

\* updateLastBlockHeight writes the block state straight into the transaction
updateLastBlockHeight(txn, nextBlockHeight) ==
    TxnSet(txn, BlockStateKey,
           ToBadgerType(MapOf("lastBlockHeight", GoInt(nextBlockHeight))).enc)

\* Commit with no open transaction dereferences nil in updateLastBlockHeight
Commit ==
    /\ status = "running" /\ driverHeight < MaxHeight
    /\ last' = Lifecycle("Commit")
    /\ before' = currentBatch
    /\ IF currentBatch.open
       THEN /\ db' = updateLastBlockHeight(currentBatch.txn, treeState.nextBlockHeight)
            /\ currentBatch' = NilBatch
            /\ treeState' = IF treeState.nextBlockHeight # 0
                            THEN [lastBlockHeight |-> treeState.nextBlockHeight,
                                  nextBlockHeight |-> 0]
                            ELSE treeState
            /\ driverHeight' = driverHeight + 1
            /\ committedReg' = committedReg \cup pendingReg
            /\ pendingReg' = {}
            /\ status' = status
            /\ firstCycle' = closeFirstCycleComplete(firstCycle)
       ELSE /\ status' = "panicked"
            /\ UNCHANGED <<db, currentBatch, treeState, driverHeight,
                           pendingReg, committedReg, firstCycle>>
    /\ UNCHANGED <<chainInit, calls, discarded>>

\* Info: the height the application reports to the driver
Info == [LastBlockHeight |-> treeState.lastBlockHeight]

\* The consensus driver calls InitChain once at genesis and then, per block,
\* BeginBlock, DeliverTx any number of times, EndBlock and Commit; CheckTx
\* comes from the mempool and Query from clients at any time.
Idle == chainInit /\ ~currentBatch.open
InBlock == chainInit /\ currentBatch.open /\ treeState.nextBlockHeight = 0
BlockEnded == chainInit /\ currentBatch.open /\ treeState.nextBlockHeight # 0

Next ==
    \/ InitChain
    \/ Idle /\ BeginBlock
    \/ InBlock /\ \E tx \in Txs : DeliverTx(tx)
    \/ chainInit /\ \E tx \in CheckTxs : CheckTx(tx)
    \/ chainInit /\ \E q \in Queries : Query(q)
    \/ InBlock /\ EndBlock
    \/ BlockEnded /\ Commit

Spec == Init /\ [][Next]_vars

(***************************************************************************)
(* The store and the engine on their own.  setKey, isAuth and the pair     *)
(* isValid, executeTx are called with arguments of this model's choosing:  *)
(* auth records that carry their public key as bytes, which is what the    *)
(* engine hands to setKey when assembleAccountData returns the map it      *)
(* built, and a login as isAuth returns one.  The block lifecycle is that  *)
(* of Spec.                                                                *)
(***************************************************************************)
AuthRec(pk) == MapOf("pubKey", GoBytes(pk))
LoginRec(pk, sig) == MapOf2("pubKey", GoBytes(pk), "sign", GoBytes(sig))

UnitPaths == {UserAuth("alice"), UserAuth("bob"), LoginAuth("alice", "desk"),
              Email("alice"), Email("bob")}
\* an auth record as assembleAccountData builds it for a login created at c
CreatedRec(pk, c) == MapOf2("pubKey", GoBytes(pk), "created", GoInt(c))

UnitValues == {GoNil, AuthRec("kA"), AuthRec("kB"), LoginRec("kD", "sA_login_kD"),
               MapOf("hash", GoStr(<<"H1">>)), CreatedRec("kA", 1)}

UserLogin(name, pk) == [NewLogin("user", name) EXCEPT !.Pubkey = pk]
UnitLogins == {UserLogin("alice", "kA"), UserLogin("bob", "kB"),
               [NewLogin("root", "") EXCEPT !.Pubkey = "kR"]}
UnitEntries ==
    {Entry(StoreX("alice"), GoStr(<<"v">>)),
     Entry(UserAuth("alice"), RegValue("kA")),
     Entry(LoginAuth("alice", "desk"), LoginValue("kD", "sA_login_kD")),
     Entry(LoginAuth("alice", "desk"), LoginValue("kD", "sB_login_kD"))}

\* the entries of a transaction isAuth has attributed to no account
AnonEntries ==
    {Entry(UserAuth("alice"), GoStr(<<"v">>)),
     Entry(UserAuth("alice"), MapOf2("pubKey", GoStr(<<EncodeToString("kA")>>),
                                     "created", GoInt(2)))}

InitUnit ==
    /\ db = EmptyStore
    /\ currentBatch = OpenBatch(EmptyStore)
    /\ treeState = [lastBlockHeight |-> 0, nextBlockHeight |-> 0]
    /\ status = "running"
    /\ chainInit = TRUE
    /\ driverHeight = 0
    /\ calls = 0
    /\ last = NoCall
    /\ before = NilBatch
    /\ pendingReg = {}
    /\ committedReg = {}
    /\ discarded = {}
    /\ firstCycle = NodeMode

UnitSetKey(path, value) ==
    /\ status = "running" /\ calls < MaxWrites
    /\ \E r \in {setKey(currentBatch.txn, path, value)} :
        /\ currentBatch' = [currentBatch EXCEPT !.txn = r.txn]
        /\ last' = [op |-> "setKey", path |-> path, value |-> value, err |-> r.err]
    /\ calls' = calls + 1
    /\ before' = currentBatch
    /\ UNCHANGED <<db, treeState, status, chainInit, driverHeight,
                   pendingReg, committedReg, firstCycle, discarded>>

\* isAuth against the committed store
UnitIsAuth(pk) ==
    /\ status = "running"
    /\ \E r \in {isAuth(db, pk)} :
        last' = [op |-> "isAuth", pkey |-> pk, err |-> r.err, login |-> r.login]
    /\ before' = currentBatch
    /\ UNCHANGED <<db, currentBatch, treeState, status, chainInit, driverHeight, calls,
                   pendingReg, committedReg, firstCycle, discarded>>

\* DeliverTx from isValid on, for a transaction isAuth has attributed to login
engine(tx, login, batch, lastBlockHeight) ==
    With(isValid(tx, login, batch), LAMBDA valid :
        IF ~Fine(valid) THEN Response(valid, batch, "isValid", login, 0)
        ELSE With(executeTx(tx, login, batch, lastBlockHeight), LAMBDA exec :
                Response(exec.v, exec.batch, "executeTx", login, exec.failedAt)))

UnitExecute(login, entry) ==
    /\ status = "running" /\ calls < MaxWrites
    /\ \E r \in {engine(SignedTx(login.Pubkey, <<entry>>), login, currentBatch,
                        treeState.lastBlockHeight)} :
        /\ status' = IF r.v.hang THEN "hung" ELSE IF r.v.panic THEN "panicked" ELSE status
        /\ currentBatch' = IF r.v.hang \/ r.v.panic THEN currentBatch ELSE r.batch
        /\ last' = Call("engine", SignedTx(login.Pubkey, <<entry>>), r)
    /\ calls' = calls + 1
    /\ before' = currentBatch
    /\ UNCHANGED <<db, treeState, chainInit, driverHeight,
                   pendingReg, committedReg, firstCycle, discarded>>

\* the same for a transaction whose key isAuth did not find
UnitExecuteAnon(pk, entry) ==
    /\ status = "running" /\ calls < MaxWrites
    /\ \E r \in {engine(SignedTx(pk, <<entry>>), NoLogin, currentBatch,
                        treeState.lastBlockHeight)} :
        /\ status' = IF r.v.hang THEN "hung" ELSE IF r.v.panic THEN "panicked" ELSE status
        /\ currentBatch' = IF r.v.hang \/ r.v.panic THEN currentBatch ELSE r.batch
        /\ last' = Call("engine", SignedTx(pk, <<entry>>), r)
    /\ calls' = calls + 1
    /\ before' = currentBatch
    /\ UNCHANGED <<db, treeState, chainInit, driverHeight,
                   pendingReg, committedReg, firstCycle, discarded>>

\* the keys handed to resolveSymlinkPath: a link with a tail under each
\* destination prefix, and a key without a colon
ResolveKeys == {ColonKey, <<KeyMapKey("kA"), <<"auth">> >>, <<StoreX("alice")>>,
                <<StoreX("alice"), <<"auth">> >>}

\* resolveSymlinkPath against the block transaction
UnitResolve(key) ==
    /\ status = "running" /\ calls < MaxWrites
    /\ \E r \in {resolveSymlinkPath(currentBatch.txn, key)} :
        /\ status' = IF r.hang THEN "hung" ELSE status
        /\ last' = [op |-> "resolve", key |-> key, err |-> r.err, result |-> r.key]
    /\ calls' = calls + 1
    /\ before' = currentBatch
    /\ UNCHANGED <<db, currentBatch, treeState, chainInit, driverHeight,
                   pendingReg, committedReg, firstCycle, discarded>>

NextUnit ==
    \/ \E path \in UnitPaths, value \in UnitValues : UnitSetKey(path, value)
    \/ \E pk \in PubKeys : UnitIsAuth(pk)
    \/ \E login \in UnitLogins, entry \in UnitEntries : UnitExecute(login, entry)
    \/ \E entry \in AnonEntries : UnitExecuteAnon("kA", entry)
    \/ \E key \in ResolveKeys : UnitResolve(key)
    \/ Idle /\ BeginBlock
    \/ InBlock /\ EndBlock
    \/ BlockEnded /\ Commit

SpecUnit == InitUnit /\ [][NextUnit]_vars

(***************************************************************************)
(* setKey on its own, with values the codec returns as they were stored    *)
(* (maps without an integer entry): the index maintenance of               *)
(* src/app/app.go:398-424 under writes, rewrites and deletions.            *)
(***************************************************************************)
IndexPaths == {UserAuth("alice"), UserAuth("bob"), Email("alice")}
IndexValues == {GoNil, AuthRec("kA"), AuthRec("kB"), MapOf("hash", GoStr(<<"H1">>))}

NextIndex == \E path \in IndexPaths, value \in IndexValues : UnitSetKey(path, value)

SpecIndex == InitUnit /\ [][NextIndex]_vars

(***************************************************************************)
(* canAccess on its own (src/app/app-exec.go:153-193): one evaluation for  *)
(* a login and a path.                                                     *)
(***************************************************************************)
ChildLogin(type, name, parent) == [NewLogin(type, name) EXCEPT !.Parent = parent]
DomainLogin(user, pk, d) == ChildLogin("domain", d, UserLogin(user, pk))

AccessLogins ==
    {[NewLogin("root", "") EXCEPT !.Pubkey = "kR"],
     UserLogin("alice", "kA"), UserLogin("bob", "kB"),
     ChildLogin("login", "desk", UserLogin("alice", "kA")),
     DomainLogin("alice", "kA", "d1"), DomainLogin("alice", "kA", "d2"),
     DomainLogin("bob", "kB", "d1")}

DomainPath(user, d, area) == <<"user", user, "domain", d, area, "x">>

AccessPaths ==
    {RootAuth, BlockStateKey, UserAuth("alice"), StoreX("alice"),
     LoginAuth("alice", "desk"), <<"user", "alice", "privStore", "x">>,
     <<"user", "alice", "domain", "d1", "auth">>}
    \cup {KeyMapKey("kA"), LowerKeymapKey("kA"), <<"users", "email", "H1">>,
          <<"mesh", "genesis", "time">>, <<"config", "x">>, <<"user", "alice">>,
          UserAuth("bob"), StoreX("bob"), <<"user", "bob", "privStore", "x">>,
          <<"user", "bob", "storefront">>, LoginAuth("bob", "desk"),
          <<"user", "bob", "domain", "d1", "auth">>}
    \cup {DomainPath(u, d, area) : u \in Names, d \in {"d1", "d2"},
                                  area \in {"privStore", "store", "loc"}}

CanAccess(forWrite, login, path) ==
    /\ last = NoCall
    /\ last' = [op |-> "canAccess", forWrite |-> forWrite, login |-> login,
                path |-> path, r |-> canAccess(forWrite, login, path)]
    /\ UNCHANGED <<db, currentBatch, treeState, status, chainInit, driverHeight,
                   calls, before, pendingReg, committedReg, discarded, firstCycle>>

NextAccess ==
    \E forWrite \in BOOLEAN, login \in AccessLogins, path \in AccessPaths :
        CanAccess(forWrite, login, path)

SpecAccess == InitUnit /\ [][NextAccess]_vars

(***************************************************************************)
(* The engine for authenticated submitters, isValid and then executeTx     *)
(* (src/app/app-exec.go:195-326), on a block transaction that holds the    *)
(* parent user's auth record when a write has put it there.                *)
(***************************************************************************)
DeskLogin == [ChildLogin("login", "desk", UserLogin("alice", "kA")) EXCEPT !.Pubkey = "kD"]
EngineLogins == {UserLogin("alice", "kA"), UserLogin("bob", "kB"), DeskLogin}
BadSignEntry == Entry(LoginAuth("alice", "desk"), LoginValue("kD", "sB_login_kD"))
EngineEntries ==
    {Entry(LoginAuth("alice", "desk"), LoginValue("kD", "sA_login_kD")),
     BadSignEntry,
     Entry(UserAuth("alice"), RegValue("kA")),
     Entry(StoreX("alice"), GoStr(<<"v">>))}

NextEngine ==
    \/ \E pk \in Signers : UnitSetKey(UserAuth("alice"), AuthRec(pk))
    \/ \E login \in EngineLogins, entry \in EngineEntries : UnitExecute(login, entry)

SpecEngine == InitUnit /\ [][NextEngine]_vars

(***************************************************************************)
(* The run-one-cycle mode (src/unnamed/part_007:64-84): main makes the     *)
(* channel, starts the service, and receives from FirstCycleComplete while *)
(* the driver runs blocks.  main reads the variable without                *)
(* synchronisation with Commit, which closes the channel and assigns nil:  *)
(* the read comes before or after that assignment.                         *)
(***************************************************************************)
InitOnce ==
    /\ db = EmptyStore
    /\ currentBatch = NilBatch
    /\ treeState = [lastBlockHeight |-> 0, nextBlockHeight |-> 0]
    /\ status = "running"
    /\ chainInit = FALSE
    /\ driverHeight = 0
    /\ calls = 0
    /\ last = NoCall
    /\ before = NilBatch
    /\ pendingReg = {}
    /\ committedReg = {}
    /\ discarded = {}
    /\ firstCycle = [channel |-> "nil", closes |-> 0, main |-> "init"]

appVars == <<db, currentBatch, treeState, status, chainInit, driverHeight, calls,
             last, before, pendingReg, committedReg, discarded>>

\* lines 64-75: make the channel, start the service
MainOnce ==
    /\ firstCycle.main = "init"
    /\ firstCycle' = [channel |-> "made", closes |-> 0, main |-> "started"]
    /\ UNCHANGED appVars

\* line 79, the operand: the value of the variable FirstCycleComplete
MainReceive ==
    /\ firstCycle.main = "started"
    /\ firstCycle' = [firstCycle EXCEPT
                        !.main = IF firstCycle.channel = "nil" THEN "stuck" ELSE "waiting"]
    /\ UNCHANGED appVars

\* line 79, the receive: it returns once the channel is closed
MainRelease ==
    /\ firstCycle.main = "waiting" /\ firstCycle.closes > 0
    /\ firstCycle' = [firstCycle EXCEPT !.main = "exited"]
    /\ UNCHANGED appVars

\* the service runs from service.Start until main returns
Serving == firstCycle.main \in {"started", "waiting", "stuck"}

OnceTxs ==
    {SignedTx("kA", <<Entry(StoreX("alice"), GoStr(<<"v">>))>>),
     SignedTx("kA", <<Entry(StoreX("alice"), GoNil)>>)}

NextOnce ==
    \/ MainOnce
    \/ MainReceive
    \/ MainRelease
    \/ Serving /\ InitChain
    \/ Serving /\ Idle /\ BeginBlock
    \/ Serving /\ InBlock /\ \E tx \in OnceTxs : DeliverTx(tx)
    \/ Serving /\ InBlock /\ EndBlock
    \/ Serving /\ BlockEnded /\ Commit

SpecOnce == InitOnce /\ [][NextOnce]_vars

(***************************************************************************)
(* A driver that repeats BeginBlock: the lifecycle of Spec, with           *)
(* BeginBlock at any moment after InitChain.                               *)
(***************************************************************************)
DupTxs ==
    {SignedTx("kA", <<Entry(StoreX("alice"), GoStr(<<"v">>))>>),
     SignedTx("kA", <<Entry(StoreX("alice"), GoNum("1e5"))>>),
     SignedTx("kA", <<Entry(UserAuth("alice"), GoStr(<<"v">>))>>)}

NextDup ==
    \/ InitChain
    \/ chainInit /\ BeginBlock
    \/ InBlock /\ \E tx \in DupTxs : DeliverTx(tx)
    \/ InBlock /\ EndBlock
    \/ BlockEnded /\ Commit

SpecDup == Init /\ [][NextDup]_vars

(***************************************************************************)
(* A driver that keeps no order: after InitChain, every lifecycle call at  *)
(* any moment (DeliverTx and CheckTx with no block begun, Commit with no   *)
(* EndBlock before it).                                                    *)
(***************************************************************************)
NextAnyOrder ==
    \/ InitChain
    \/ chainInit /\ BeginBlock
    \/ chainInit /\ \E tx \in DupTxs : DeliverTx(tx)
    \/ chainInit /\ \E tx \in DupTxs : CheckTx(tx)
    \/ chainInit /\ EndBlock
    \/ chainInit /\ Commit

SpecAnyOrder == Init /\ [][NextAnyOrder]_vars

(***************************************************************************)
(* The typed-value codec, at the level of bytes (src/badgertype.go).       *)
(* A uint64 is the function of its base-64 digits, least significant       *)
(* first: val & 0x3F is val[1], val >> 6 drops val[1], and a test          *)
(* val < 2^(6k+r) reads digit k+1 and the digits above it.                 *)
(***************************************************************************)
Byte == 0..255
NumDigits == 11
Zero64 == [i \in 1..NumDigits |-> 0]

RECURSIVE DigitOf(_, _)
DigitOf(n, i) == IF i = 1 THEN n % 64 ELSE DigitOf(n \div 64, i - 1)
Uint64Of(n) == [i \in 1..NumDigits |-> DigitOf(n, i)]

\* val < 2^(6k+r), for r < 6
Below(val, k, r) ==
    /\ \A j \in (k + 2)..NumDigits : val[j] = 0
    /\ val[k + 1] < 2^r

\* result = result<<6 | d, on 64 bits
Shift6(result, d) ==
    [i \in 1..NumDigits |->
        IF i = 1 THEN d
        ELSE IF i = NumDigits THEN result[i - 1] % 16 ELSE result[i - 1]]

\* the bytes after the first: result[size-idx] = byte(val&0x3F) | 0x80
varintBody(val, size, first) ==
    <<first>> \o [i \in 1..size |-> 128 + val[size - i + 1]]

\* writeVarint with the two-byte form kept up to 2^12: the lead byte has no
\* room for the bit it drops
writeVarintWide(val) ==
    IF Below(val, 1, 1) THEN <<val[1] + 64 * val[2]>>
    ELSE IF Below(val, 2, 0) THEN varintBody(val, 1, 192 + (val[2] % 32))
    ELSE IF Below(val, 2, 4) THEN varintBody(val, 2, 224 + (val[3] % 16))
    ELSE IF Below(val, 3, 3) THEN varintBody(val, 3, 240 + (val[4] % 8))
    ELSE IF Below(val, 4, 2) THEN varintBody(val, 4, 248 + (val[5] % 4))
    ELSE IF Below(val, 5, 1) THEN varintBody(val, 5, 252 + (val[6] % 2))
    ELSE varintBody(val, 6, 254)

writeVarint(val) ==
    IF Below(val, 1, 1) THEN <<val[1] + 64 * val[2]>>
    ELSE IF Below(val, 1, 5) THEN varintBody(val, 1, 192 + (val[2] % 32))
    ELSE IF Below(val, 2, 4) THEN varintBody(val, 2, 224 + (val[3] % 16))
    ELSE IF Below(val, 3, 3) THEN varintBody(val, 3, 240 + (val[4] % 8))
    ELSE IF Below(val, 4, 2) THEN varintBody(val, 4, 248 + (val[5] % 4))
    ELSE IF Below(val, 5, 1) THEN varintBody(val, 5, 252 + (val[6] % 2))
    ELSE varintBody(val, 6, 254)

\* what readVarint returns: the value and the bytes consumed, or a panic on
\* an index past the end of src
Varint(val, n) == [val |-> val, n |-> n, panic |-> FALSE]
VarintPanic == [val |-> Zero64, n |-> 0, panic |-> TRUE]

RECURSIVE readVarintLoop(_, _, _, _)
readVarintLoop(src, size, idx, result) ==
    IF idx >= size THEN Varint(result, size + 1)
    ELSE IF idx + 2 > Len(src) THEN VarintPanic
    ELSE IF src[idx + 2] \div 64 # 2 THEN Varint(Zero64, 0)
    ELSE readVarintLoop(src, size, idx + 1, Shift6(result, src[idx + 2] % 64))

readVarintLead(src, c) ==
    IF c < 128 THEN Varint(Uint64Of(c), 1)
    ELSE IF c < 192 THEN Varint(Zero64, 0)
    ELSE IF c < 224 THEN readVarintLoop(src, 1, 0, Uint64Of(c % 32))
    ELSE IF c < 240 THEN readVarintLoop(src, 2, 0, Uint64Of(c % 16))
    ELSE IF c < 248 THEN readVarintLoop(src, 3, 0, Uint64Of(c % 8))
    ELSE IF c < 252 THEN readVarintLoop(src, 4, 0, Uint64Of(c % 4))
    ELSE IF c < 254 THEN readVarintLoop(src, 5, 0, Uint64Of(c % 2))
    ELSE readVarintLoop(src, 6, 0, Zero64)

readVarint(src) ==
    IF Len(src) = 0 THEN VarintPanic ELSE readVarintLead(src, src[1])

\* true when val fits the int of the model (val < 2^30), and its value then
IsSmall(val) == \A j \in 6..NumDigits : val[j] = 0
NatOf(val) ==
    val[1] + 64 * val[2] + 4096 * val[3] + 262144 * val[4] + 16777216 * val[5]

(***************************************************************************)
(* Typed values with their bytes.  An integer is its two's-complement      *)
(* bytes, least significant first (binary.LittleEndian): eight for int64   *)
(* and uint64, four for int32.  A map is the sequence of its entries in    *)
(* the order the range statement visits them.                              *)
(***************************************************************************)
typeBool == 1

BNil        == [t |-> "nil"]
BBool(b)    == [t |-> "bool", v |-> b]
BInt64(x)   == [t |-> "int64", bits |-> x]
BInt32(x)   == [t |-> "int32", bits |-> x]
BUint64(x)  == [t |-> "uint64", bits |-> x]
BFloat(x)   == [t |-> "float", bits |-> x]
BString(c)  == [t |-> "string", chars |-> c]
BBytes(c)   == [t |-> "bytes", chars |-> c]
BArray(a)   == [t |-> "array", a |-> a]
BMap(e)     == [t |-> "map", entries |-> e]
BEntry(k, v) == [key |-> k, val |-> v]

\* binary.LittleEndian.PutUint64(bits, uint64(n)) for an n of the model
RECURSIVE PutUint(_, _)
PutUint(n, k) == IF k = 0 THEN <<>> ELSE <<n % 256>> \o PutUint(n \div 256, k - 1)
Int64(n)  == BInt64(PutUint(n, 8))
Uint64(n) == BUint64(PutUint(n, 8))

Front(s) == SubSeq(s, 1, Len(s) - 1)

RECURSIVE trimUint(_)
trimUint(bits) ==
    IF Len(bits) > 1 /\ bits[Len(bits)] = 0 /\ bits[Len(bits) - 1] < 128
    THEN trimUint(Front(bits)) ELSE bits

RECURSIVE trimInt(_)
trimInt(bits) ==
    IF Len(bits) > 1
       /\ IF bits[Len(bits)] = 0 THEN bits[Len(bits) - 1] < 128
          ELSE bits[Len(bits)] = 255 /\ bits[Len(bits) - 1] >= 128
    THEN trimInt(Front(bits)) ELSE bits

toBadgerTypeUint(bits) == <<typeInt>> \o trimUint(bits) \o <<0>>
toBadgerTypeInt(bits)  == <<typeInt>> \o trimInt(bits)

\* what ToBadgerType returns: the bytes, or an error
Enc(bytes) == [err |-> FALSE, bytes |-> bytes]
EncErr     == [err |-> TRUE, bytes |-> <<>>]

RECURSIVE ToBadgerBytes(_), encodeArray(_, _, _), encodeMap(_, _, _)
encodeArray(a, idx, result) ==
    IF idx > Len(a) THEN Enc(result)
    ELSE With(ToBadgerBytes(a[idx]), LAMBDA entry :
            IF entry.err THEN EncErr
            ELSE encodeArray(a, idx + 1,
                    result \o writeVarint(Uint64Of(Len(entry.bytes))) \o entry.bytes))

encodeMap(e, idx, result) ==
    IF idx > Len(e) THEN Enc(result)
    ELSE With(ToBadgerBytes(e[idx].val), LAMBDA entry :
            IF entry.err THEN EncErr
            ELSE encodeMap(e, idx + 1,
                    result \o writeVarint(Uint64Of(Len(e[idx].key))) \o e[idx].key
                           \o writeVarint(Uint64Of(Len(entry.bytes))) \o entry.bytes))

ToBadgerBytes(v) ==
    CASE v.t = "bool"   -> Enc(<<typeBool, IF v.v THEN 1 ELSE 0>>)
      [] v.t = "uint64" -> Enc(toBadgerTypeUint(v.bits))
      [] v.t = "int64"  -> Enc(toBadgerTypeInt(v.bits))
      [] v.t = "string" -> Enc(<<typeString>> \o v.chars)
      [] v.t = "bytes"  -> Enc(<<typeBytes>> \o v.chars)
      [] v.t = "array"  -> encodeArray(v.a, 1, <<typeArray>>)
      [] v.t = "map"    -> encodeMap(v.entries, 1, <<typeMap>>)
      [] v.t = "nil"    -> Enc(<<>>)
      [] OTHER          -> EncErr

(***************************************************************************)
(* Decoding.  A slice is an offset and a length into its backing array     *)
(* buf, and its capacity is what is left of buf from the offset; every     *)
(* sub-slice fromBadgerType takes shares buf.  append writes in place when *)
(* the capacity allows and allocates otherwise; roomy tells whether a      *)
(* fresh allocation has room for eight bytes (the allocator rounds the     *)
(* size up) or just fits.                                                  *)
(***************************************************************************)
Dec(val, buf)  == [panic |-> FALSE, err |-> FALSE, val |-> val, buf |-> buf]
DecErr(buf)    == [panic |-> FALSE, err |-> TRUE, val |-> BNil, buf |-> buf]
DecPanic(buf)  == [panic |-> TRUE, err |-> FALSE, val |-> BNil, buf |-> buf]

Elems(buf, off, len) == SubSeq(buf, off + 1, off + len)

\* buf after append(bits, f, f, f) found room behind bits
appendInPlace(buf, off, len, f) ==
    [i \in 1..Len(buf) |->
        IF i > off + len /\ i <= off + len + 3 THEN f ELSE buf[i]]

\* append(bits, f, f, f)[:8] for bits = buf[off : off+len]: the eight bytes,
\* or a panic when the capacity is below eight
extendBits(buf, off, len, f, roomy) ==
    IF len + 3 <= Len(buf) - off
    THEN IF 8 > Len(buf) - off
         THEN [panic |-> TRUE, bits |-> <<>>, buf |-> appendInPlace(buf, off, len, f)]
         ELSE [panic |-> FALSE,
               bits  |-> Elems(appendInPlace(buf, off, len, f), off, 8),
               buf   |-> appendInPlace(buf, off, len, f)]
    ELSE IF len + 3 < 8 /\ ~roomy
         THEN [panic |-> TRUE, bits |-> <<>>, buf |-> buf]
         ELSE [panic |-> FALSE,
               bits  |-> SubSeq(Elems(buf, off, len) \o <<f, f, f, 0, 0, 0, 0>>, 1, 8),
               buf   |-> buf]

signFill(buf, off, len) == IF buf[off + len] >= 128 THEN 255 ELSE 0

decodeInt(buf, off, len, roomy) ==
    IF len = 10 THEN Dec(BUint64(Elems(buf, off + 1, 8)), buf)
    ELSE IF len \in 6..9
    THEN With(extendBits(buf, off + 1, len - 1, signFill(buf, off, len), roomy),
              LAMBDA x : IF x.panic THEN DecPanic(x.buf)
                         ELSE Dec(BInt64(x.bits), x.buf))
    ELSE IF len \in 2..5
    THEN With(extendBits(buf, off + 1, len - 1, signFill(buf, off, len), roomy),
              LAMBDA x : IF x.panic THEN DecPanic(x.buf)
                         ELSE Dec(BInt32(SubSeq(x.bits, 1, 4)), x.buf))
    ELSE DecErr(buf)

\* val[1:9] is within the capacity of val, not its length
decodeFloat(buf, off, len) ==
    IF len = 5
    THEN IF 9 > Len(buf) - off THEN DecPanic(buf)
         ELSE Dec(BFloat(Elems(buf, off + 1, 4)), buf)
    ELSE IF len = 9 THEN Dec(BFloat(Elems(buf, off + 1, 8)), buf)
    ELSE DecErr(buf)

\* the bound hi of remain[lo:hi] for a length read by readVarint, or -1 when
\* it is past every capacity of the model
HighBound(rv) == IF IsSmall(rv.val) THEN NatOf(rv.val) + rv.n ELSE -1

RECURSIVE fromBadgerBytes(_, _, _, _), decodeArray(_, _, _, _, _),
          decodeMap(_, _, _, _, _), decodeMapValue(_, _, _, _, _, _)

\* the loop of the typeArray case: remain = buf[off : off+len]
decodeArrayEntry(buf, off, len, vals, roomy, hi, entry) ==
    IF entry.panic THEN DecPanic(entry.buf)
    ELSE IF entry.err THEN DecErr(entry.buf)
    ELSE IF hi > len THEN DecPanic(entry.buf)
    ELSE decodeArray(entry.buf, off + hi, len - hi, Append(vals, entry.val), roomy)

decodeArray(buf, off, len, vals, roomy) ==
    IF len <= 0 THEN Dec(BArray(vals), buf)
    ELSE With(readVarint(Elems(buf, off, len)), LAMBDA rv :
            IF rv.panic THEN DecPanic(buf)
            ELSE IF rv.n = 0 THEN DecErr(buf)
            ELSE IF HighBound(rv) < 0 \/ HighBound(rv) > Len(buf) - off
            THEN DecPanic(buf)
            ELSE decodeArrayEntry(buf, off, len, vals, roomy, HighBound(rv),
                    fromBadgerBytes(buf, off + rv.n, HighBound(rv) - rv.n, roomy)))

\* the loop of the typeMap case, from the key and from the value
\* vals[key] = value for the Go map held as the sequence of its entries
putEntry(vals, key, val) ==
    IF \E i \in 1..Len(vals) : vals[i].key = key
    THEN [i \in 1..Len(vals) |-> IF vals[i].key = key THEN BEntry(key, val) ELSE vals[i]]
    ELSE Append(vals, BEntry(key, val))

decodeMapEntry(buf, off, len, vals, roomy, key, hi, entry) ==
    IF entry.panic THEN DecPanic(entry.buf)
    ELSE IF entry.err THEN DecErr(entry.buf)
    ELSE IF hi > len THEN DecPanic(entry.buf)
    ELSE decodeMap(entry.buf, off + hi, len - hi,
                   putEntry(vals, key, entry.val), roomy)

decodeMapValue(buf, off, len, vals, roomy, key) ==
    With(readVarint(Elems(buf, off, len)), LAMBDA rv :
        IF rv.panic THEN DecPanic(buf)
        ELSE IF rv.n = 0 THEN DecErr(buf)
        ELSE IF HighBound(rv) < 0 \/ HighBound(rv) > Len(buf) - off
        THEN DecPanic(buf)
        ELSE decodeMapEntry(buf, off, len, vals, roomy, key, HighBound(rv),
                fromBadgerBytes(buf, off + rv.n, HighBound(rv) - rv.n, roomy)))

decodeMap(buf, off, len, vals, roomy) ==
    IF len <= 0 THEN Dec(BMap(vals), buf)
    ELSE With(readVarint(Elems(buf, off, len)), LAMBDA rv :
            IF rv.panic THEN DecPanic(buf)
            ELSE IF rv.n = 0 THEN DecErr(buf)
            ELSE IF HighBound(rv) < 0 \/ HighBound(rv) > Len(buf) - off
            THEN DecPanic(buf)
            ELSE IF HighBound(rv) > len THEN DecPanic(buf)
            ELSE decodeMapValue(buf, off + HighBound(rv), len - HighBound(rv), vals,
                                roomy, Elems(buf, off + rv.n, HighBound(rv) - rv.n)))

fromBadgerBytes(buf, off, len, roomy) ==
    IF len = 0 THEN DecErr(buf)
    ELSE CASE buf[off + 1] = typeBool ->
                IF len < 2 THEN DecErr(buf) ELSE Dec(BBool(buf[off + 2] # 0), buf)
           [] buf[off + 1] = typeInt    -> decodeInt(buf, off, len, roomy)
           [] buf[off + 1] = typeFloat  -> decodeFloat(buf, off, len)
           [] buf[off + 1] = typeString -> Dec(BString(Elems(buf, off + 1, len - 1)), buf)
           [] buf[off + 1] = typeBytes  -> Dec(BBytes(Elems(buf, off + 1, len - 1)), buf)
           [] buf[off + 1] = typeArray  -> decodeArray(buf, off + 1, len - 1, <<>>, roomy)
           [] buf[off + 1] = typeMap    -> decodeMap(buf, off + 1, len - 1, <<>>, roomy)
           [] OTHER                     -> DecErr(buf)

\* equality of typed values up to the width of an integer: the decoder
\* returns an int32 or an int64 for what was stored from any integer type
IsInteger(v) == v.t \in {"int64", "int32", "uint64"}
Negative(v) == v.t # "uint64" /\ v.bits[Len(v.bits)] >= 128
Widen(v) ==
    IF v.t = "int32"
    THEN v.bits \o (IF Negative(v) THEN <<255, 255, 255, 255>> ELSE <<0, 0, 0, 0>>)
    ELSE v.bits

RECURSIVE SameValue(_, _)
SameValue(v, w) ==
    IF IsInteger(v) /\ IsInteger(w)
    THEN Widen(v) = Widen(w) /\ Negative(v) = Negative(w)
    ELSE IF v.t # w.t THEN FALSE
    ELSE IF v.t = "array"
    THEN Len(v.a) = Len(w.a) /\ \A i \in 1..Len(v.a) : SameValue(v.a[i], w.a[i])
    ELSE IF v.t = "map"
    THEN /\ Len(v.entries) = Len(w.entries)
         /\ \A i \in 1..Len(v.entries) :
                /\ v.entries[i].key = w.entries[i].key
                /\ SameValue(v.entries[i].val, w.entries[i].val)
    ELSE v = w

(***************************************************************************)
(* The codec on its own: one application of writeVarint and readVarint, or *)
(* of ToBadgerType and fromBadgerType, to an input.  The slice handed to   *)
(* fromBadgerType has the capacity the build gave it: spare bytes behind   *)
(* the encoding.                                                           *)
(***************************************************************************)
MaxSmall == 300
MaxSpare == 8

\* 2^(6k+r), the number below it and the number above it
Pow2(k, r) == [i \in 1..NumDigits |-> IF i = k + 1 THEN 2^r ELSE 0]
Pow2Pred(k, r) ==
    [i \in 1..NumDigits |->
        IF i <= k THEN 63 ELSE IF i = k + 1 THEN 2^r - 1 ELSE 0]
Pow2Succ(k, r) ==
    [i \in 1..NumDigits |->
        IF i = 1 THEN 1 ELSE IF i = k + 1 THEN 2^r ELSE 0]

\* 2^7, 2^11, 2^16, 2^21, 2^26, 2^31 and 2^36 as <<k, r>>
Boundaries == {<<1, 1>>, <<1, 5>>, <<2, 4>>, <<3, 3>>, <<4, 2>>, <<5, 1>>, <<6, 0>>}

VarintInputs ==
    {Uint64Of(n) : n \in 0..MaxSmall}
    \cup {Pow2Pred(b[1], b[2]) : b \in Boundaries}
    \cup {Pow2(b[1], b[2]) : b \in Boundaries \ {<<6, 0>>}}
    \cup {Pow2Succ(b[1], b[2]) : b \in Boundaries \ {<<6, 0>>}}
    \cup {[i \in 1..NumDigits |-> IF i <= 6 THEN d[i] ELSE 0] :
            d \in [1..6 -> {0, 1, 63}]}

Abc == <<97, 98, 99>>
CodecScalars ==
    {BBool(TRUE), BBool(FALSE)}
    \cup {Int64(n) : n \in {0, 5, -1, 127, 128, -128, -129, 70000, -70000,
                            2147483647, -2147483647}}
    \cup {BInt64(<<0, 0, 0, 0, 1, 0, 0, 0>>), BInt64(<<0, 0, 0, 0, 0, 0, 0, 128>>),
          BInt64(<<255, 255, 255, 255, 255, 255, 255, 127>>)}
    \cup {Uint64(5), Uint64(200), BUint64(<<0, 0, 0, 0, 0, 0, 0, 128>>),
          BUint64(<<255, 255, 255, 255, 255, 255, 255, 255>>)}
    \cup {BString(<<>>), BString(Abc), BBytes(<<>>), BBytes(<<1, 2, 3>>)}

CodecValues ==
    CodecScalars
    \cup {BArray(<<>>), BArray(<<BString(Abc)>>), BArray(<<Int64(5)>>),
          BArray(<<Int64(5), BString(Abc)>>), BArray(<<BString(Abc), Int64(5)>>),
          BArray(<<BArray(<<BBool(TRUE)>>), BString(Abc)>>)}
    \cup {BMap(<<>>), BMap(<<BEntry(<<97>>, BString(Abc))>>),
          BMap(<<BEntry(<<97>>, BString(Abc)), BEntry(<<98>>, BBool(TRUE))>>),
          BMap(<<BEntry(<<97>>, Int64(5))>>),
          BMap(<<BEntry(<<97>>, Int64(5)), BEntry(<<98>>, BString(Abc))>>),
          BMap(<<BEntry(<<98>>, BString(Abc)), BEntry(<<97>>, Int64(5))>>)}

Zeros(n) == [i \in 1..n |-> 0]

VarintRoundTrip(n) ==
    /\ last = NoCall
    /\ \E enc \in {writeVarint(n)} :
          last' = [op |-> "varint", n |-> n, enc |-> enc, dec |-> readVarint(enc)]
    /\ UNCHANGED <<db, currentBatch, treeState, status, chainInit, driverHeight,
                   calls, before, pendingReg, committedReg, discarded, firstCycle>>

CodecRoundTrip(v, spare, roomy) ==
    /\ last = NoCall
    /\ \E e \in {ToBadgerBytes(v)} :
          last' = [op |-> "codec", v |-> v, spare |-> spare, roomy |-> roomy,
                   enc |-> e,
                   dec |-> IF e.err THEN DecErr(<<>>)
                           ELSE fromBadgerBytes(e.bytes \o Zeros(spare), 0,
                                                Len(e.bytes), roomy)]
    /\ UNCHANGED <<db, currentBatch, treeState, status, chainInit, driverHeight,
                   calls, before, pendingReg, committedReg, discarded, firstCycle>>

\* stored bytes that no Go map encodes: the entries of a map payload written
\* one after the other, a key more than once
RepeatedKeyEntries ==
    {<<BEntry(<<97>>, BBool(TRUE)), BEntry(<<97>>, BBool(FALSE))>>,
     <<BEntry(<<97>>, BString(Abc)), BEntry(<<98>>, BBool(TRUE)), BEntry(<<97>>, BBool(TRUE))>>,
     <<BEntry(<<97>>, BString(Abc)), BEntry(<<97>>, BString(Abc))>>}

\* fromBadgerType of such a payload
DecodeRepeated(entries, spare, roomy) ==
    /\ last = NoCall
    /\ \E e \in {encodeMap(entries, 1, <<typeMap>>)} :
          last' = [op |-> "decode", entries |-> entries, spare |-> spare, roomy |-> roomy,
                   enc |-> e,
                   dec |-> fromBadgerBytes(e.bytes \o Zeros(spare), 0, Len(e.bytes), roomy)]
    /\ UNCHANGED <<db, currentBatch, treeState, status, chainInit, driverHeight,
                   calls, before, pendingReg, committedReg, discarded, firstCycle>>

NextCodec ==
    \/ \E n \in VarintInputs : VarintRoundTrip(n)
    \/ \E entries \in RepeatedKeyEntries, spare \in {0, MaxSpare}, roomy \in BOOLEAN :
          DecodeRepeated(entries, spare, roomy)
    \/ \E v \in CodecValues, spare \in 0..MaxSpare, roomy \in BOOLEAN :
          CodecRoundTrip(v, spare, roomy)

SpecCodec == InitUnit /\ [][NextCodec]_vars

(***************************************************************************)
(* Properties.                                                             *)
(***************************************************************************)
Delivered == last.op = "DeliverTx" /\ status = "running"

\* C1: when DeliverTx fails in executeTx, at whatever entry, the block
\* transaction holds none of the writes the transaction's earlier entries
\* made: it is what it was when the call began.
C1_Atomicity ==
    (Delivered /\ last.stage = "executeTx" /\ last.code # ErrorOk)
        => currentBatch = before

\* the submitter names no account: the all-zero prefix, or a valid signature
\* by a key without a keyMap entry in the committed store
Anonymous(tx) ==
    \/ tx.kind = "zero"
    \/ tx.kind = "signed" /\ tx.sigOk /\ GetBadgerVal(db, KeyMapKey(tx.pkey)) = GoNil

\* entry e of tx is a self-registration against the transaction txn
SelfRegEntry(tx, e, txn) ==
    /\ Len(e.key) = 1 /\ userAuthMatch(e.key[1]).ok
    /\ e.value.t = "map"
    /\ LET dec == decodeAccountData(NewLogin("user", ""), e.value.m, TRUE)
       IN  ~dec.err /\ dec.login.Pubkey = tx.pkey
    /\ GetBadgerVal(txn, e.key[1]) = GoNil

\* C2: an anonymous DeliverTx with an entry that is not a self-registration
\* (its path is not user/<name>/auth, or its value is not a map whose pubKey
\* is the transaction's key, or a record exists at the path) is rejected and
\* leaves the block transaction as it was.
C2_AnonymousPolicy ==
    (/\ Delivered /\ Anonymous(last.tx)
     /\ \E i \in 1..Len(last.tx.entries) :
            ~SelfRegEntry(last.tx, last.tx.entries[i], before.txn))
        => (last.code # ErrorOk /\ currentBatch = before)

AuthPaths == {RootAuth, LoginAuth("alice", "desk")} \cup {UserAuth(n) : n \in Names}
AccountOf(authPath) == SubSeq(authPath, 1, Len(authPath) - 1)
LinkOf(txn, pk) == GetBadgerVal(txn, KeyMapKey(pk))
IsLinkTo(link, path) == link.t = "string" /\ link.s = path

SetKeyConflict ==
    /\ last.op = "setKey" /\ last.path \in AuthPaths
    /\ PubKeyBytesOf(last.value) # ""
    /\ PubKeyBytesOf(GetBadgerVal(before.txn, last.path)) # PubKeyBytesOf(last.value)
    /\ LinkOf(before.txn, PubKeyBytesOf(last.value)).t = "string"
    /\ ~IsLinkTo(LinkOf(before.txn, PubKeyBytesOf(last.value)), AccountOf(last.path))

\* C4: setKey of an auth record whose new pubKey already has a keyMap entry
\* of another account returns an error, does not write the record and leaves
\* that keyMap entry as it was.
C4_ConflictIsError ==
    SetKeyConflict =>
        /\ last.err
        /\ currentBatch.txn[last.path] = before.txn[last.path]
        /\ LinkOf(currentBatch.txn, PubKeyBytesOf(last.value))
              = LinkOf(before.txn, PubKeyBytesOf(last.value))

CommittedUser(name, pk) ==
    /\ PubKeyBytesOf(GetBadgerVal(db, UserAuth(name))) = pk
    /\ IsLinkTo(LinkOf(db, pk), <<"user", name>>)

\* C6: isAuth of a key whose user record and keyMap entry are in the
\* committed store returns that user account, not the anonymous nil.
C6_RegisteredKeyAuthenticates ==
    \A n \in Names :
        (last.op = "isAuth" /\ CommittedUser(n, last.pkey))
            => (/\ ~last.err /\ last.login # NoLogin
                /\ last.login.Type = "user" /\ last.login.Name = n)

SignBytesOf(v) ==
    IF v.t = "map" /\ v.m["sign"].t = "bytes" THEN v.m["sign"].b ELSE ""

\* C7: after an accepted DeliverTx that wrote user/alice/login/desk/auth, the
\* record stored there carries a sign that verifies under the public key of
\* user/alice over ("login", the record's pubKey).
C7_SignatureChain ==
    (/\ Delivered /\ last.code = ErrorOk
     /\ \E i \in 1..Len(last.tx.entries) :
            /\ last.tx.entries[i].key = <<LoginAuth("alice", "desk")>>
            /\ last.tx.entries[i].value # GoNil)
        => LET rec == GetBadgerVal(currentBatch.txn, LoginAuth("alice", "desk"))
               owner == GetBadgerVal(currentBatch.txn, UserAuth("alice"))
           IN  verifySignature(PubKeyBytesOf(owner),
                               [typeName |-> "login", pubKey |-> PubKeyBytesOf(rec)],
                               SignBytesOf(rec))

\* C8: a DeliverTx signed with a key that has no keyMap entry, whose one
\* entry writes user/<name>/auth with the map {pubKey: base64url(key)} while
\* nothing is stored at that path, returns code 0.
C8_SelfRegistration ==
    \A n \in Names, pk \in Signers :
        (/\ Delivered /\ IsRegTx(last.tx, n, pk)
         /\ LinkOf(db, pk) = GoNil
         /\ before.open /\ GetBadgerVal(before.txn, UserAuth(n)) = GoNil)
            => last.code = ErrorOk

\* C9: a self-registration for user/<name>/auth while a value is stored at
\* that path returns Unauthorized with "already exists" and leaves the block
\* transaction as it was.
C9_DuplicateUser ==
    \A n \in Names, pk \in Signers :
        (/\ Delivered /\ IsRegTx(last.tx, n, pk)
         /\ before.open /\ GetBadgerVal(before.txn, UserAuth(n)) # GoNil)
            => (/\ last.code = ErrorUnauth /\ last.info = "already exists"
                /\ currentBatch = before)

\* C10: the engine, given the user account alice as the authenticated
\* submitter and the entry user/alice/login/desk/auth with pubKey kD and a
\* sign by alice's key over ("login", kD), returns code 0.
C10_LoginCreation ==
    (/\ last.op = "engine" /\ status = "running"
     /\ last.login = UserLogin("alice", "kA")
     /\ last.tx.entries
            = <<Entry(LoginAuth("alice", "desk"), LoginValue("kD", "sA_login_kD"))>>)
        => last.code = ErrorOk

(***************************************************************************)
(* CheckTx and the open block.                                             *)
(***************************************************************************)
\* the response CheckTx gives to tx when it is validated against the
\* committed store alone
SnapshotCheck(tx) == check(tx, db, OpenBatch(db))

CreatedOf(txn, path) ==
    IF HasKey(GetBadgerVal(txn, path), "created")
    THEN GetBadgerVal(txn, path).m["created"]
    ELSE Missing

C13_CommitPersistsHeight ==
    last.op = "Commit" =>
        /\ status = "running"
        /\ GetBadgerVal(db, BlockStateKey) = MapOf("lastBlockHeight", GoInt(driverHeight))
        /\ Info.LastBlockHeight = driverHeight
        /\ before.open
        /\ \A k \in Keys \ {BlockStateKey} : db[k] = before.txn[k]
        /\ currentBatch = NilBatch
        /\ treeState.nextBlockHeight = 0

\* the second block is committed with a write that DeliverTx accepted in it
C13_SecondBlockCommitted ==
    /\ last.op = "Commit"
    /\ driverHeight = 2
    /\ GetBadgerVal(db, StoreX("alice")) = GoStr(<<"v">>)
    /\ GetBadgerVal(before.txn, BlockStateKey) = MapOf("lastBlockHeight", GoInt(1))

(***************************************************************************)
(* The root account.                                                       *)
(***************************************************************************)
\* C14: when InitChain has returned, config/rootUser/auth holds a map whose
\* pubKey is the generated key, keyMap/<base64url(pubKey)> holds
\* config/rootUser, and Info reports height 0.
C14_RootBootstrap ==
    last.op = "InitChain" =>
        /\ PubKeyBytesOf(GetBadgerVal(db, RootAuth)) = "kR"
        /\ IsLinkTo(LinkOf(db, "kR"), AccountOf(RootAuth))
        /\ Info.LastBlockHeight = 0

(***************************************************************************)
(* Queries without an account.                                             *)
(***************************************************************************)
\* C15: a Query of one key, signed by a key without an account, returns; when
\* the key is not an auth path the response is ErrorUnauth without a value,
\* and when it succeeds on an auth path the value has no parent signature.
C15_AnonymousRead ==
    (last.op = "Query" /\ last.tx.kind = "signed" /\ Anonymous(last.tx)
        /\ last.tx.form = "string")
        => /\ status = "running"
           /\ IF last.tx.keys[1].key \in {<<p>> : p \in AuthPaths}
              THEN last.code = ErrorOk => ~HasKey(last.value, "sign")
              ELSE last.code = ErrorUnauth /\ last.value = GoNil

(***************************************************************************)
(* Symlink resolution.                                                     *)
(***************************************************************************)
\* C16: resolveSymlinkPath of prefix:tail, where the block transaction holds
\* the string s under prefix (a key under keyMap/ or users/email/), returns
\* s/tail without an error.
C16_SymlinkResolution ==
    (last.op = "resolve" /\ Len(last.key) = 2
        /\ GetBadgerVal(currentBatch.txn, last.key[1]).t = "string")
        => /\ status = "running"
           /\ ~last.err
           /\ last.result = GetBadgerVal(currentBatch.txn, last.key[1]).s \o last.key[2]

\* C17: every call of resolveSymlinkPath returns.
C17_ResolveTerminates ==
    last.op = "resolve" => status = "running"

C18_DuplicateBeginBlock ==
    /\ last.op = "BeginBlock" => (status = "running" /\ currentBatch = OpenBatch(db))
    /\ last.op = "Commit" => (status = "running" /\ \A p \in discarded : db[p.key] # p.enc)

\* a block is committed after BeginBlock dropped a transaction with writes
C18_CommittedAfterDrop ==
    /\ last.op = "Commit"
    /\ status = "running"
    /\ discarded # {}

(***************************************************************************)
(* The framing of a transaction.                                           *)
(***************************************************************************)
\* C20: unpackTx accepts a transaction with the all-zero prefix whose body
\* is JSON (the call gets past unpackTx), and answers ErrorTxBadSign to a
\* transaction with another prefix whose signature does not verify.
C20_AnonymousFraming ==
    last.op \in {"DeliverTx", "CheckTx"} =>
        /\ (last.tx.kind = "zero" /\ last.tx.form # "invalid")
                => last.stage # "unpackTx"
        /\ (last.tx.kind = "signed" /\ ~last.tx.sigOk)
                => (last.stage = "unpackTx" /\ last.code = ErrorTxBadSign)

(***************************************************************************)
(* The wire form of a transaction.                                         *)
(***************************************************************************)
\* C21: DeliverTx and CheckTx take a signed transaction whose JSON body is an
\* array of [path, value] tuples past the test of the body's form: the
\* response does not come from that test and is not ErrorBadFormat.
C21_ArrayForm ==
    (last.op \in {"DeliverTx", "CheckTx"} /\ last.tx.kind = "signed"
        /\ last.tx.sigOk /\ last.tx.form = "array")
        => (last.stage # "form" /\ last.code # ErrorBadFormat)

\* C22: for every value of the supported set (booleans, signed and unsigned
\* integers, strings, byte strings, arrays, maps of several entries with an
\* integer entry followed by another), fromBadgerType of what ToBadgerType
\* returned gives the value back.
C22_CodecRoundTrip ==
    (last.op = "codec" /\ ~last.enc.err)
        => (~last.dec.panic /\ ~last.dec.err /\ SameValue(last.dec.val, last.v))

\* C23: for every n below 2^36, readVarint of writeVarint(n) returns n and a
\* consumed length equal to the length of the encoding.
C23_VarintRoundTrip ==
    last.op = "varint"
        => (~last.dec.panic /\ last.dec.val = last.n /\ last.dec.n = Len(last.enc))

\* the round trip of 2^31, the first value of the seven-byte form
C23_SevenBytes ==
    /\ last.op = "varint"
    /\ last.n = Pow2(5, 1)
    /\ Len(last.enc) = 7
    /\ last.dec.val = last.n

\* C24: what is stored under an account's auth path, in the block transaction
\* and in the committed store, is a map (the record the engine re-assembles),
\* whoever submitted the write; a client's value is never stored as it came.
C24_CanonicalAuth ==
    \A k \in AuthPaths :
        /\ GetBadgerVal(currentBatch.txn, k).t \in {"nil", "map"}
        /\ GetBadgerVal(db, k).t \in {"nil", "map"}

\* the last call was setKey of an auth record that holds a pubKey, with a
\* value that holds another pubKey
OldPubKey == PubKeyBytesOf(GetBadgerVal(before.txn, last.path))
NewPubKey == PubKeyBytesOf(last.value)
KeyChange ==
    /\ last.op = "setKey" /\ last.path \in AuthPaths /\ ~last.err
    /\ OldPubKey # "" /\ NewPubKey # "" /\ OldPubKey # NewPubKey

\* C25: when setKey rewrites the auth record of account p with another pubKey,
\* the keyMap entry of the old key is removed if it pointed at p and left as
\* it was otherwise, the keyMap entry of the new key holds p, and exactly one
\* keyMap entry points at p.
C25_KeyChangeIndex ==
    KeyChange =>
        /\ LinkOf(currentBatch.txn, OldPubKey)
              = IF IsLinkTo(LinkOf(before.txn, OldPubKey), AccountOf(last.path))
                THEN GoNil ELSE LinkOf(before.txn, OldPubKey)
        /\ IsLinkTo(LinkOf(currentBatch.txn, NewPubKey), AccountOf(last.path))
        /\ Cardinality({pk \in PubKeys :
                IsLinkTo(LinkOf(currentBatch.txn, pk), AccountOf(last.path))}) = 1

EmailIndexKey(h) == symLinkDestPrefix \o h

\* C26: for every user/<name>/email of the block transaction that is a map
\* with a non-empty string under hash, users/email/<hash> holds user/<name>.
C26_AttributeIndex ==
    \A n \in Names :
        AttrStringOf(GetBadgerVal(currentBatch.txn, Email(n)), symLinkSourceAttr) # <<>>
            => IsLinkTo(GetBadgerVal(currentBatch.txn,
                            EmailIndexKey(AttrStringOf(GetBadgerVal(currentBatch.txn, Email(n)),
                                                       symLinkSourceAttr))),
                        <<"user", n>>)

C28_RootAccess ==
    (last.op = "canAccess" /\ last.login.Type = "root")
        => (~last.r.panic /\ last.r.isGranted)

\* C29: a domain account d1 of user u is granted read or write on
\* user/<u>/domain/<d>/privStore/... exactly when d = d1, and on no other
\* user's domain privStore.
C29_DomainPrivStore ==
    (last.op = "canAccess" /\ last.login.Type = "domain"
        /\ Len(last.path) = 6 /\ last.path[3] = "domain" /\ last.path[5] = "privStore")
        => /\ ~last.r.panic
           /\ last.r.isGranted
                <=> (last.path[2] = last.login.Parent.Name /\ last.path[4] = last.login.Name)

\* a path under one of the registered destination prefixes keyMap/ and
\* users/email/
UnderDestPrefix(path) ==
    \/ Len(path) >= 2 /\ SubSeq(path, 1, 1) = pubkeyDestPrefix
    \/ Len(path) >= 3 /\ SubSeq(path, 1, 2) = symLinkDestPrefix

\* C30: resolveSymlinkPath of a key with a ":" whose leading segment is under
\* no registered destination prefix returns an error.
C30_UnregisteredIndirection ==
    (last.op = "resolve" /\ Len(last.key) > 1 /\ ~UnderDestPrefix(last.key[1]))
        => (status = "running" /\ last.err)

\* C31: an authenticated write to a login's auth record whose sign does not
\* verify under the parent user's key is answered Unauthorized and leaves the
\* record as it was.
C31_BadParentSignature ==
    (last.op = "engine" /\ last.tx.entries = <<BadSignEntry>>)
        => /\ status = "running"
           /\ last.code = ErrorUnauth
           /\ currentBatch.txn[LoginAuth("alice", "desk")]
                 = before.txn[LoginAuth("alice", "desk")]

\* C32: a DeliverTx that arrives with no block transaction open opens one and
\* runs without a fault: when it returns, the process is running and a block
\* transaction is open.
C32_DeliverOpensBatch ==
    (last.op = "DeliverTx" /\ ~before.open)
        => status = "running" /\ currentBatch.open

\* C33: an auth record that an accepted DeliverTx writes where none was
\* stored carries, as created, the height of the block that holds it: the
\* height the driver then gives to EndBlock and Commit persists.
C33_CreatedIsBlockHeight ==
    (Delivered /\ last.code = ErrorOk /\ before.open)
        => \A p \in AuthPaths :
            (last.tx.entries[1].key = <<p>> /\ before.txn[p] = NoEntry)
                => CreatedOf(currentBatch.txn, p) = GoInt(driverHeight + 1)

\* C35: a write whose path goes through a registered index prefix with no
\* stored link is answered NotFound, by validation and by execution, and
\* writes nothing.
C35_AbsentTargetNotFound ==
    (last.op \in {"DeliverTx", "CheckTx"}
        /\ last.tx.kind = "signed" /\ last.tx.sigOk /\ last.tx.form = "object"
        /\ Len(last.tx.entries) = 1
        /\ last.tx.entries[1].key = << <<"users", "email", "H1">>, <<"auth">> >>
        /\ GetBadgerVal(before.txn, <<"users", "email", "H1">>) = GoNil)
        => /\ status = "running"
           /\ last.code = ErrorNotFound
           /\ currentBatch = before

\* C34: decoding a stored map in which a key occurs more than once fails
\* with an error.
C34_RepeatedKeyFails ==
    last.op = "decode" => last.dec.err

\* C36: a block transaction is open exactly from a BeginBlock to the next
\* Commit: BeginBlock leaves one open, Commit leaves none, and no other call
\* opens or closes one.
C36_OpenTransaction ==
    [][/\ last'.op = "BeginBlock" => currentBatch'.open
       /\ last'.op = "Commit" => ~currentBatch'.open
       /\ last'.op \notin {"BeginBlock", "Commit"}
            => currentBatch'.open = currentBatch.open]_vars

C36_BlockCommitted ==
    last.op = "Commit" /\ status = "running" /\ before.open /\ ~currentBatch.open

\* C37: after every Commit the height Info reports is the lastBlockHeight
\* this Commit stored under mesh/blockState.
C37_HeightsAgree ==
    (last.op = "Commit" /\ status = "running")
        => GetBadgerVal(db, BlockStateKey)
              = MapOf("lastBlockHeight", GoInt(Info.LastBlockHeight))

\* C38: CheckTx changes nothing: whatever the transaction and whether a block
\* is open or not, the committed store, the block transaction and its open
\* flag, lastBlockHeight and nextBlockHeight are after the call what they
\* were before it.
C38_CheckTxNoEffect ==
    [][last'.op = "CheckTx"
        => /\ db' = db
           /\ currentBatch' = currentBatch
           /\ treeState' = treeState]_vars

C38_CheckedInBlock ==
    /\ last.op = "CheckTx" /\ status = "running" /\ last.code = ErrorOk
    /\ currentBatch.open /\ currentBatch.txn # db

\* the name of the apex account of login: its parent's for a login or domain
ApexName(login) == IF login.Parent # NoLogin THEN login.Parent.Name ELSE login.Name

\* path lies under user/<apex-name>/
UnderApex(login, path) ==
    Len(path) >= 3 /\ path[1] = "user" /\ path[2] = ApexName(login)

\* C39: canAccess for write grants a user, login or domain account no path
\* outside user/<apex-name>/.
C39_NoWriteOutsideApex ==
    (last.op = "canAccess" /\ last.forWrite
        /\ last.login.Type \in {"user", "login", "domain"}
        /\ ~UnderApex(last.login, last.path))
        => (~last.r.panic /\ ~last.r.isGranted)

C39_ForeignStoreDenied ==
    /\ last.op = "canAccess" /\ last.forWrite
    /\ last.login = ChildLogin("login", "desk", UserLogin("alice", "kA"))
    /\ last.path = StoreX("bob")
    /\ ~last.r.isGranted

\* C40: when isValid has accepted a transaction, executeTx, run next in the
\* same DeliverTx, rejects none of its entries with Unauthorized, UnknownUser
\* or NotFound, whatever the earlier entries wrote.
C40_ExecutionAgrees ==
    (last.op = "DeliverTx" /\ last.stage = "executeTx")
        => last.code \notin {ErrorUnauth, ErrorUnknownUser, ErrorNotFound}

C40_SecondEntryExecuted ==
    /\ Delivered /\ last.stage = "executeTx" /\ last.code = ErrorOk
    /\ last.tx.entries = <<Entry(UserAuth("alice"), GoStr(<<"v">>)),
                           Entry(UserAuth("alice"), GoNil)>>

=============================================================================
